---- MODULE Spec2Model ----
(***************************************************************************)
(* Session-and-discovery layer of representante_medico:                    *)
(*   authService.ts         (src/unnamed/part_001, lines 1-275)            *)
(*   googleSheetsService.ts (src/unnamed/part_001, lines 277-795)          *)
(* The browser runs one cooperative scheduler: every action below is one   *)
(* synchronous run of code between two awaits (or one callback).           *)
(***************************************************************************)
EXTENDS Integers, Sequences, FiniteSets, TLC

\* ------------------------------------------------------------------ bounds
NumCallers == 2
MaxBootstraps == 2
NumTasks == 2
MaxSignIns == 2
MaxExpiresIn == 1
MaxAuthNow == 1001
MaxSheets == 2
MaxCoord == 19
MaxRows == 2
NumLoads == 1
NumAdds == 1
MaxList == 2
NumSheetCallers == 1
MaxSettlements == 2

\* ------------------------------------------------------- program constants
WaitTimeout == 10000
PollInterval == 100

Callers == 1..NumCallers
PromiseIds == 1..MaxBootstraps
Tasks == 1..NumTasks
SignInIds == 1..MaxSignIns

\* Absent values: localStorage.getItem() of a missing key, gapi.client.getToken()
\* with no token, a null result. Strings of digits are sequences of 0..9, and the
\* missing expiry entry is the empty sequence (the code tests both with "!x").
NULL == "null"
NoDigits == << >>
NaN == -1
AccessTokens == {"tokA", "tokB"}
SheetNames == <<"sheetA", "sheetB", "sheetC", "sheetD">>
SheetIds == 1..MaxSheets
SheetCallers == 1..NumSheetCallers

VARIABLES
  now,            \* Date.now()
  \* ---- authService.ts module state
  initPromise,    \* 0 = null, else the id of the stored promise
  gapiInited,
  gisInited,
  tokenClient,    \* FALSE = null
  \* ---- the promises created by initializeGoogleApi and their executors
  promises,       \* id -> [state, error]
  nextPromise,    \* the id the next new Promise gets
  outerPc,        \* id -> position of the executor's body
  cbPc,           \* id -> position of the gapi.load callback
  waitStart,      \* id -> startTime of the executor's current waitForGlobal
  intervals,      \* id -> the setInterval timers of the executor's two waitForGlobal calls
  \* ---- the environment: have the two script tags defined their globals
  gapiLoaded,
  gisLoaded,
  \* ---- the callers of initializeGoogleApi
  callerPc,       \* "idle", "awaiting", "resolved", "rejected"
  callerPromise,  \* the promise the call returned (0: Promise.resolve())
  callerError,    \* the error the caller observed
  callerPendingAtEntry, \* history: the promise that was pending when the call was made
  callerStarted,  \* history: did this call start a bootstrap
  \* ---- localStorage (STORAGE_KEYS) and the gapi client's token
  lsAccessToken,  \* 'google_access_token', NULL when missing
  lsExpiresAt,    \* 'google_token_expires_at', a string of digits, NoDigits when missing
  lsSheetId,      \* 'google_sheet_id', NULL when missing
  gapiToken,      \* gapi.client.getToken()'s access_token, NULL when none
  \* ---- signIn() calls: each creates a promise and a callback closure
  tokenCallback,  \* tokenClient.callback: 0 = '', else the signIn call whose closure it is
  signIns,        \* call id -> "unused", "pending", "resolved", "rejected", "abandoned"
  nextSignIn,
  requested,      \* the signIn calls whose requestAccessToken popup has not answered
  \* ---- the running operations
  task,           \* task id -> record, see IdleTask
  \* ---- the remote store (Drive and Sheets)
  sheets,         \* creation order -> [state, title, grid]; state "none" = not created
  sessionExpiresAt, \* history: the number storeTokens was last given, -1 when cleared
  \* ---- useGoogleSheetsData.ts
  state,          \* the hook's React state: [status, medicos, farmacias, error]
  load,           \* run -> a loadData() run: its position and its two reads
  add             \* call -> an addFarmacia() / addMedico() call

initVars == <<initPromise, gapiInited, gisInited, tokenClient, promises, nextPromise,
              outerPc, cbPc, waitStart, intervals, gapiLoaded, gisLoaded,
              callerPc, callerPromise, callerError, callerPendingAtEntry, callerStarted>>

authVars == <<lsAccessToken, lsExpiresAt, lsSheetId, gapiToken, tokenCallback, signIns,
              nextSignIn, requested, task, sessionExpiresAt, sheets>>

\* useGoogleSheetsData: the hook's React state, its loadData runs and its add calls
hookVars == <<state, load, add>>

vars == <<now, initVars, authVars, hookVars>>

\* ----------------------------------------------------------------- promises
\* resolve()/reject() of a promise: only the first settlement counts.
Settle(ps, p, st, e) ==
  IF ps[p].state = "pending" THEN [ps EXCEPT ![p] = [state |-> st, error |-> e]] ELSE ps

PendingPromises == {p \in PromiseIds : promises[p].state = "pending"}

\* checkReady of promise p's executor, evaluated with the given flags.
checkReady(ps, p, gapiOk, gisOk) ==
  IF gapiOk /\ gisOk THEN Settle(ps, p, "fulfilled", "none") ELSE ps

\* The timer of one waitForGlobal call: is it set, and how many times its callback
\* has called resolve() or reject().
NoInterval == [active |-> FALSE, settled |-> 0]
setInterval == [active |-> TRUE, settled |-> 0]
NoIntervals == [gapi |-> NoInterval, gis |-> NoInterval]
keepInterval(w) == w
clearInterval(w) == [w EXCEPT !.active = FALSE]
\* clearInterval(checkInterval) followed by resolve() or reject(...) (lines 36-41)
SettleWait(w) == [clearInterval(w) EXCEPT !.settled = @ + 1]
\* the await of the waitForGlobal promise continues once, at its first settlement
FirstSettlement(w) == w.settled = 0

\* One firing of waitForGlobal's interval callback: "resolve", "reject" or "wait".
waitForGlobal(available, startTime) ==
  IF available THEN "resolve"
  ELSE IF now - startTime > WaitTimeout THEN "reject"
  ELSE "wait"

\* ------------------------------------------------------ initializeGoogleApi
\* line 53: is an initialization promise stored
InitInFlightNoCheck == FALSE
InitInFlight == initPromise # 0

\* line 58: already initialized
AlreadyInitialized == gapiInited /\ gisInited

initializeGoogleApi(c) ==
  /\ callerPc[c] = "idle"
  /\ callerPendingAtEntry' =
       [callerPendingAtEntry EXCEPT ![c] =
          IF PendingPromises = {} THEN 0 ELSE CHOOSE p \in PendingPromises : TRUE]
  /\ IF InitInFlight
     THEN /\ callerPromise' = [callerPromise EXCEPT ![c] = initPromise]
          /\ callerPc' = [callerPc EXCEPT ![c] = "awaiting"]
          /\ callerStarted' = [callerStarted EXCEPT ![c] = FALSE]
          /\ UNCHANGED <<initPromise, promises, nextPromise, outerPc, waitStart, intervals>>
     ELSE IF AlreadyInitialized
     THEN /\ callerPromise' = [callerPromise EXCEPT ![c] = 0]
          /\ callerPc' = [callerPc EXCEPT ![c] = "resolved"]
          /\ callerStarted' = [callerStarted EXCEPT ![c] = FALSE]
          /\ UNCHANGED <<initPromise, promises, nextPromise, outerPc, waitStart, intervals>>
     ELSE /\ nextPromise <= MaxBootstraps
          /\ promises' = [promises EXCEPT ![nextPromise] = [state |-> "pending", error |-> "none"]]
          /\ outerPc' = [outerPc EXCEPT ![nextPromise] = "waitGapi"]
          /\ waitStart' = [waitStart EXCEPT ![nextPromise] = now]
          /\ intervals' = [intervals EXCEPT ![nextPromise].gapi = setInterval]
          /\ initPromise' = nextPromise
          /\ nextPromise' = nextPromise + 1
          /\ callerPromise' = [callerPromise EXCEPT ![c] = nextPromise]
          /\ callerPc' = [callerPc EXCEPT ![c] = "awaiting"]
          /\ callerStarted' = [callerStarted EXCEPT ![c] = TRUE]
  /\ UNCHANGED <<authVars, hookVars, now, gapiInited, gisInited, tokenClient, cbPc, gapiLoaded, gisLoaded,
                 callerError>>

\* The outer catch (lines 109-113): reset the stored promise, then reject.
OuterCatch(p, e) ==
  /\ initPromise' = 0
  /\ promises' = Settle(promises, p, "rejected", e)
  /\ outerPc' = [outerPc EXCEPT ![p] = "failed"]

\* The interval callback of waitForGlobal('gapi', ...), then gapi.load (lines 73-92).
PollGapi(p) ==
  /\ intervals[p].gapi.active
  /\ intervals[p].gapi.settled < MaxSettlements
  /\ now - waitStart[p] >= PollInterval
  /\ LET r == waitForGlobal(gapiLoaded, waitStart[p])
         first == FirstSettlement(intervals[p].gapi) IN
     CASE r = "resolve" /\ first ->
            /\ intervals' = [intervals EXCEPT ![p].gapi = SettleWait(@), ![p].gis = setInterval]
            /\ outerPc' = [outerPc EXCEPT ![p] = "waitGis"]
            /\ cbPc' = [cbPc EXCEPT ![p] = "loading"]
            /\ waitStart' = [waitStart EXCEPT ![p] = now]
            /\ UNCHANGED <<initPromise, promises>>
       [] r = "reject" /\ first ->
            /\ intervals' = [intervals EXCEPT ![p].gapi = SettleWait(@)]
            /\ OuterCatch(p, "Timeout waiting for gapi to load")
            /\ UNCHANGED <<cbPc, waitStart>>
       [] r # "wait" /\ ~first ->
            /\ intervals' = [intervals EXCEPT ![p].gapi = SettleWait(@)]
            /\ UNCHANGED <<initPromise, promises, outerPc, cbPc, waitStart>>
       [] OTHER -> UNCHANGED <<initPromise, promises, outerPc, cbPc, waitStart, intervals>>
  /\ UNCHANGED <<authVars, hookVars, now, gapiInited, gisInited, tokenClient, nextPromise, gapiLoaded, gisLoaded,
                 callerPc, callerPromise, callerError, callerPendingAtEntry, callerStarted>>

\* The interval callback of waitForGlobal('Google Identity Services', ...), then
\* initTokenClient, gisInited = true, checkReady() (lines 95-108).
PollGis(p) ==
  /\ intervals[p].gis.active
  /\ intervals[p].gis.settled < MaxSettlements
  /\ now - waitStart[p] >= PollInterval
  /\ LET r == waitForGlobal(gisLoaded, waitStart[p])
         first == FirstSettlement(intervals[p].gis) IN
     CASE r = "resolve" /\ first ->
            /\ intervals' = [intervals EXCEPT ![p].gis = SettleWait(@)]
            /\ \/ /\ tokenClient' = TRUE
                  /\ gisInited' = TRUE
                  /\ promises' = checkReady(promises, p, gapiInited, TRUE)
                  /\ outerPc' = [outerPc EXCEPT ![p] = "done"]
                  /\ UNCHANGED initPromise
               \/ /\ OuterCatch(p, "initTokenClient failed")
                  /\ UNCHANGED <<tokenClient, gisInited>>
       [] r = "reject" /\ first ->
            /\ intervals' = [intervals EXCEPT ![p].gis = SettleWait(@)]
            /\ OuterCatch(p, "Timeout waiting for Google Identity Services to load")
            /\ UNCHANGED <<tokenClient, gisInited>>
       [] r # "wait" /\ ~first ->
            /\ intervals' = [intervals EXCEPT ![p].gis = SettleWait(@)]
            /\ UNCHANGED <<initPromise, promises, outerPc, tokenClient, gisInited>>
       [] OTHER -> UNCHANGED <<initPromise, promises, outerPc, tokenClient, gisInited, intervals>>
  /\ UNCHANGED <<authVars, hookVars, now, gapiInited, nextPromise, cbPc, waitStart, gapiLoaded, gisLoaded,
                 callerPc, callerPromise, callerError, callerPendingAtEntry, callerStarted>>

\* The inner catch of the gapi.load callback (lines 88-91): reject only.
InnerCatch(p, e) ==
  /\ promises' = Settle(promises, p, "rejected", e)
  /\ cbPc' = [cbPc EXCEPT ![p] = "failed"]
  /\ UNCHANGED gapiInited

\* The gapi.load callback (lines 76-92), one await at a time.
GapiLoadCallback(p) ==
  /\ \/ /\ cbPc[p] = "loading"
        /\ cbPc' = [cbPc EXCEPT ![p] = "clientInit"]
        /\ UNCHANGED <<promises, gapiInited>>
     \/ /\ cbPc[p] = "clientInit"
        /\ \/ /\ cbPc' = [cbPc EXCEPT ![p] = "loadSheets"]
              /\ UNCHANGED <<promises, gapiInited>>
           \/ InnerCatch(p, "gapi.client.init failed")
     \/ /\ cbPc[p] = "loadSheets"
        /\ \/ /\ cbPc' = [cbPc EXCEPT ![p] = "loadDrive"]
              /\ UNCHANGED <<promises, gapiInited>>
           \/ InnerCatch(p, "load sheets failed")
     \/ /\ cbPc[p] = "loadDrive"
        /\ \/ /\ gapiInited' = TRUE
              /\ promises' = checkReady(promises, p, TRUE, gisInited)
              /\ cbPc' = [cbPc EXCEPT ![p] = "done"]
           \/ InnerCatch(p, "load drive failed")
  /\ UNCHANGED <<authVars, hookVars, now, initPromise, gisInited, tokenClient, nextPromise, outerPc, waitStart,
                 intervals, gapiLoaded, gisLoaded,
                 callerPc, callerPromise, callerError, callerPendingAtEntry, callerStarted>>

\* A caller's await of the returned promise completes.
CallerObserves(c) ==
  /\ callerPc[c] = "awaiting"
  /\ promises[callerPromise[c]].state \in {"fulfilled", "rejected"}
  /\ callerPc' = [callerPc EXCEPT ![c] =
                    IF promises[callerPromise[c]].state = "fulfilled" THEN "resolved" ELSE "rejected"]
  /\ callerError' = [callerError EXCEPT ![c] = promises[callerPromise[c]].error]
  /\ UNCHANGED <<authVars, hookVars, now, initPromise, gapiInited, gisInited, tokenClient, promises, nextPromise,
                 outerPc, cbPc, waitStart, intervals, gapiLoaded, gisLoaded,
                 callerPromise, callerPendingAtEntry, callerStarted>>

\* The caller goes on and may call again later.
CallerReturns(c) ==
  /\ callerPc[c] \in {"resolved", "rejected"}
  /\ callerPc' = [callerPc EXCEPT ![c] = "idle"]
  /\ callerPromise' = [callerPromise EXCEPT ![c] = 0]
  /\ callerError' = [callerError EXCEPT ![c] = "none"]
  /\ callerPendingAtEntry' = [callerPendingAtEntry EXCEPT ![c] = 0]
  /\ callerStarted' = [callerStarted EXCEPT ![c] = FALSE]
  /\ UNCHANGED <<authVars, hookVars, now, initPromise, gapiInited, gisInited, tokenClient, promises, nextPromise,
                 outerPc, cbPc, waitStart, intervals, gapiLoaded, gisLoaded>>

\* A script tag finishes loading and defines its global.
ScriptLoads ==
  /\ \/ /\ ~gapiLoaded
        /\ gapiLoaded' = TRUE
        /\ UNCHANGED gisLoaded
     \/ /\ ~gisLoaded
        /\ gisLoaded' = TRUE
        /\ UNCHANGED gapiLoaded
  /\ UNCHANGED <<authVars, hookVars, now, initPromise, gapiInited, gisInited, tokenClient, promises, nextPromise,
                 outerPc, cbPc, waitStart, intervals,
                 callerPc, callerPromise, callerError, callerPendingAtEntry, callerStarted>>

\* The clock reaches the next instant at which an interval callback of a running
\* waitForGlobal can tell something new: its first firing, or, while the awaited
\* global is still missing, its first firing after the wait budget is spent.
\* (Firings in between change nothing.)
TickInit ==
  /\ \E p \in PromiseIds :
       \/ /\ outerPc[p] \in {"waitGapi", "waitGis"}
          /\ now < waitStart[p] + PollInterval
          /\ now' = waitStart[p] + PollInterval
       \/ /\ \/ outerPc[p] = "waitGapi" /\ ~gapiLoaded
             \/ outerPc[p] = "waitGis" /\ ~gisLoaded
          /\ now < waitStart[p] + WaitTimeout + PollInterval
          /\ now' = waitStart[p] + WaitTimeout + PollInterval
  /\ UNCHANGED <<initVars, hookVars, authVars>>

\* ====================================================================== auth
\* Number.prototype.toString() of a non-negative integer: its decimal digits.
RECURSIVE toString(_)
toString(n) == IF n < 10 THEN <<n>> ELSE Append(toString(n \div 10), n % 10)

RECURSIVE DigitsValue(_)
DigitsValue(s) ==
  IF Len(s) = 1 THEN s[1] ELSE 10 * DigitsValue(SubSeq(s, 1, Len(s) - 1)) + s[Len(s)]

\* parseInt(s, 10) of a string of digits; NaN for the empty string.
parseInt(s) == IF s = NoDigits THEN NaN ELSE DigitsValue(s)

\* "a < b" of two numbers, false when either is NaN.
LessThan(a, b) == a # NaN /\ b # NaN /\ a < b
LessOrEqual(a, b) == a # NaN /\ b # NaN /\ a <= b

\* What an operation sees of the session: the stored token, the expiry as the number
\* that was stored, the token attached to the gapi client, and the clock.
Snapshot(tok, exp, gtok, t) == [token |-> tok, expiresAt |-> exp, gapi |-> gtok, at |-> t]
NoSnapshot == Snapshot(NULL, -1, NULL, -1)
NoResponse == [kind |-> "none", token |-> NULL, expiresIn |-> -1, at |-> -1, error |-> "none"]
\* response.error of a failed token request
ProviderErrorCodes == {"access_denied", "popup_closed"}

\* ---------------------------------------------------- googleSheetsService.ts
SHEET_TITLE == "representante_medico__app"
FARMACIAS_TAB == "farmacias"
MEDICOS_TAB == "medicos"
FARMACIAS_HEADERS ==
  <<"id", "createdAt", "email", "phone", "territorio", "pais", "estado", "municipio",
    "colonia", "calle", "estatus", "codigoPostal", "ruta", "nombreCuenta",
    "plantillaClientes", "folioTienda", "cedulaProfesional", "grupoCadena", "especialidad",
    "categoriaMedico", "propietarioCuenta", "lat", "lng", "googleMapsUrl", "nombreBrick">>
MEDICOS_HEADERS ==
  <<"id", "createdAt", "email", "phone", "estado", "ciudad", "colonia", "calle", "estatus",
    "codigoPostal", "nombreCuenta", "especialidad", "nombreBrick", "lat", "lng",
    "googleMapsUrl">>

\* A failure value: a non-object has only its string conversion; an object may
\* carry result.error.message, message and statusText (Absent when missing).
Absent == "<absent>"
ErrorValue(isObj, str, env, msg, st) ==
  [isObject |-> isObj, str |-> str, envelope |-> env, message |-> msg, statusText |-> st]
NoError == ErrorValue(FALSE, "", Absent, Absent, Absent)
\* new Error(m)
Error(m) == ErrorValue(TRUE, "Error: " \o m, Absent, m, Absent)
RemoteErrors ==
  {ErrorValue(TRUE, "[object Object]", "The caller does not have permission", Absent, Absent),
   ErrorValue(TRUE, "[object Object]", Absent, Absent, "Service Unavailable"),
   Error("Network down")}

\* Malformed fields: result.error that is null or undefined, and a field that
\* holds something else than a string (a truthy one, for result.error.message).
NullEnvelope == "<result.error is null>"
NotAString == "<not a string>"
\* The TypeError of reading .message of null (line 350) leaves the function.
TypeErrorThrown == "<throws TypeError>"
\* The values a catch block may receive: non-objects and null by their string
\* conversion, objects by their fields.
ErrorValues ==
  {ErrorValue(FALSE, str, Absent, Absent, Absent) : str \in {"", "null", "undefined", "boom"}}
  \cup {ErrorValue(TRUE, str, env, msg, st) :
          str \in {"[object Object]"},
          env \in {Absent, NullEnvelope, NotAString, "", "The caller does not have permission"},
          msg \in {Absent, NotAString, "", "Network down"},
          st \in {Absent, NotAString, "", "Service Unavailable"}}

\* lines 341-365
extractErrorMessageStatusFirst(error) ==
  IF ~error.isObject THEN error.str
  ELSE IF error.envelope = NullEnvelope THEN TypeErrorThrown
  ELSE IF error.envelope \notin {Absent, ""} THEN error.envelope
  ELSE IF error.statusText \notin {Absent, NotAString} THEN error.statusText
  ELSE IF error.message \notin {Absent, NotAString} THEN error.message
  ELSE error.str
extractErrorMessage(error) ==
  IF ~error.isObject THEN error.str
  ELSE IF error.envelope = NullEnvelope THEN TypeErrorThrown
  ELSE IF error.envelope \notin {Absent, ""} THEN error.envelope
  ELSE IF error.message \notin {Absent, NotAString} THEN error.message
  ELSE IF error.statusText \notin {Absent, NotAString} THEN error.statusText
  ELSE error.str

NoCalls == [verify |-> 0, search |-> 0, create |-> 0, headers |-> 0]

\* lines 462-480: the argument of spreadsheets.create
CreateRequestOneTab == [title |-> SHEET_TITLE, tabs |-> <<FARMACIAS_TAB>>]
CreateRequest == [title |-> SHEET_TITLE, tabs |-> <<FARMACIAS_TAB, MEDICOS_TAB>>]

\* lines 508-523: the argument of spreadsheets.values.batchUpdate
HeadersRequest(spreadsheetId) ==
  [spreadsheetId |-> spreadsheetId,
   data |-> <<[tab |-> FARMACIAS_TAB, cell |-> "A1", values |-> <<FARMACIAS_HEADERS>>],
              [tab |-> MEDICOS_TAB, cell |-> "A1", values |-> <<MEDICOS_HEADERS>>]>>]

\* ------------------------------------------------------------ record mapping
\* The values of an entity's fields: strings, numbers, undefined.
Str(s) == [n |-> 0, s |-> s, type |-> "string"]
Num(n) == [n |-> n, s |-> "", type |-> "number"]
Undefined == [n |-> 0, s |-> "", type |-> "undefined"]
NaNValue == [n |-> 0, s |-> "NaN", type |-> "number"]
\* ToBoolean(v), a || b, a ?? b
Truthy(v) ==
  CASE v.type = "string" -> v.s # ""
    [] v.type = "number" -> v.n # 0 /\ v # NaNValue
    [] OTHER -> FALSE
Or(a, b) == IF Truthy(a) THEN a ELSE b
Nullish(a, b) == IF a = Undefined THEN b ELSE a

\* The decimal text of an integer, as Number.prototype.toString() and a cell's
\* formatted value give it.
DigitChars == <<"0", "1", "2", "3", "4", "5", "6", "7", "8", "9">>
RECURSIVE NumberToString(_)
NumberToString(n) ==
  IF n < 0 THEN "-" \o NumberToString(0 - n)
  ELSE IF n < 10 THEN DigitChars[n + 1]
  ELSE NumberToString(n \div 10) \o DigitChars[(n % 10) + 1]
\* parseFloat(s), for the coordinates the model draws
parseFloat(s) ==
  IF \E n \in (0 - MaxCoord)..MaxCoord : NumberToString(n) = s
  THEN Num(CHOOSE n \in (0 - MaxCoord)..MaxCoord : NumberToString(n) = s)
  ELSE NaNValue

\* Number.prototype.toString(36)
Base36Chars ==
  <<"0", "1", "2", "3", "4", "5", "6", "7", "8", "9", "a", "b", "c", "d", "e", "f", "g",
    "h", "i", "j", "k", "l", "m", "n", "o", "p", "q", "r", "s", "t", "u", "v", "w", "x",
    "y", "z">>
RECURSIVE toString36(_)
toString36(n) ==
  IF n < 36 THEN Base36Chars[n + 1] ELSE toString36(n \div 36) \o Base36Chars[(n % 36) + 1]
\* lines 791-795; random is Math.random().toString(36).substring(2, 9)
RandomParts == {"", "k2j5x9q"}
generateId(random) == toString36(now) \o "-" \o random

\* Date.prototype.toISOString() within the first minute of the epoch
Pad(n, width) ==
  IF width = 3 /\ n < 10 THEN "00" \o NumberToString(n)
  ELSE IF (width = 3 /\ n < 100) \/ (width = 2 /\ n < 10) THEN "0" \o NumberToString(n)
  ELSE NumberToString(n)
toISOString(ms) ==
  "1970-01-01T00:00:" \o Pad((ms \div 1000) % 60, 2) \o "." \o Pad(ms % 1000, 3) \o "Z"

\* The columns in the order of farmaciaToRow / rowToFarmacia (676-704, 733-761) and
\* of medicoToRow / rowToMedico (709-728, 766-785).
FarmaciaFields ==
  <<"id", "createdAt", "email", "phone", "territorio", "pais", "estado", "municipio",
    "colonia", "calle", "estatus", "codigoPostal", "ruta", "nombreCuenta",
    "plantillaClientes", "folioTienda", "cedulaProfesional", "grupoCadena", "especialidad",
    "categoriaMedico", "propietarioCuenta", "lat", "lng", "googleMapsUrl", "nombreBrick">>
MedicoFields ==
  <<"id", "createdAt", "email", "phone", "estado", "ciudad", "colonia", "calle", "estatus",
    "codigoPostal", "nombreCuenta", "especialidad", "nombreBrick", "lat", "lng",
    "googleMapsUrl">>
FieldSet(fields) == {fields[i] : i \in 1..Len(fields)}
NumberFields == {"lat", "lng"}
RequiredFields == {"id", "createdAt"}

\* entity -> row: id and createdAt as they are, strings by "|| ''", numbers by "?? ''"
ToRowOmitsAbsent(fields, entity) ==
  LET cells == [i \in 1..Len(fields) |-> entity[fields[i]]]
      Present(v) == v # Undefined
  IN SelectSeq(cells, Present)
ToRow(fields, entity) ==
  [i \in 1..Len(fields) |->
     LET v == entity[fields[i]] IN
     IF fields[i] \in RequiredFields THEN v
     ELSE IF fields[i] \in NumberFields THEN Nullish(v, Str(""))
     ELSE Or(v, Str(""))]
farmaciaToRow(farmacia) == ToRow(FarmaciaFields, farmacia)
medicoToRow(medico) == ToRow(MedicoFields, medico)

\* row of strings -> entity: a missing or empty cell is '' for id and createdAt and
\* undefined elsewhere; a number column is parsed when non-empty.
FromRow(fields, row) ==
  [k \in FieldSet(fields) |->
     LET i == CHOOSE j \in 1..Len(fields) : fields[j] = k
         cell == IF i <= Len(row) THEN Str(row[i]) ELSE Undefined
     IN IF k \in RequiredFields THEN Or(cell, Str(""))
        ELSE IF k \in NumberFields THEN IF Truthy(cell) THEN parseFloat(cell.s) ELSE Undefined
        ELSE Or(cell, Undefined)]
rowToFarmacia(row) == FromRow(FarmaciaFields, row)
rowToMedico(row) == FromRow(MedicoFields, row)

\* The record operations of the module, their tab, columns and error prefix.
ReadOps == {"readFarmacias", "readMedicos"}
WriteOps == {"writeFarmacia", "writeMedico"}
RecordOps == ReadOps \cup WriteOps
SheetOps == {"initializeSheet"} \cup RecordOps
TabOf(op) == IF op \in {"readFarmacias", "writeFarmacia"} THEN FARMACIAS_TAB ELSE MEDICOS_TAB
FieldsOf(op) == IF op \in {"readFarmacias", "writeFarmacia"} THEN FarmaciaFields ELSE MedicoFields
FailurePrefix(op) ==
  CASE op = "readFarmacias" -> "Failed to read farmacias: "
    [] op = "readMedicos" -> "Failed to read medicos: "
    [] op = "writeFarmacia" -> "Failed to write farmacia: "
    [] OTHER -> "Failed to write medico: "

\* The arguments of writeFarmacia / writeMedico the model draws: every field but
\* id and createdAt, absent ones undefined.
Partial(fields, email, lat, lng, last) ==
  [k \in FieldSet(fields) \ RequiredFields |->
     CASE k = "email" -> email
       [] k = "lat" -> lat
       [] k = "lng" -> lng
       [] k = fields[Len(fields)] -> last
       [] OTHER -> Undefined]
Partials(fields) ==
  {Partial(fields, Str(""), Num(0), Undefined, Undefined),
   Partial(fields, Str("a@b.mx"), Num(MaxCoord), Num(0 - MaxCoord), Str("zona 1"))}

\* lines 603-607, 640-644: { id: generateId(), createdAt: new Date().toISOString(), ...partial }
NewEntity(fields, partial, random) ==
  [k \in FieldSet(fields) |->
     IF k = "id" THEN Str(generateId(random))
     ELSE IF k = "createdAt" THEN Str(toISOString(now))
     ELSE partial[k]]

\* The remote keeps what a RAW write put into a cell; a read gives its formatted text.
FormattedValue(v) == IF v.type = "number" THEN NumberToString(v.n) ELSE v.s
RECURSIVE TrimTrailing(_)
TrimTrailing(row) ==
  IF row # << >> /\ row[Len(row)] = "" THEN TrimTrailing(SubSeq(row, 1, Len(row) - 1))
  ELSE row
\* spreadsheets.values.get of "<tab>!A2:Z": the rows below the first one, each without
\* its trailing empty cells; no values property when there is none.
GetValues(rows) ==
  [present |-> Len(rows) > 1,
   values |-> [i \in 1..(IF Len(rows) > 1 THEN Len(rows) - 1 ELSE 0) |-> TrimTrailing(rows[i + 1])]]
\* lines 563, 585: response.result.values || []
ValuesOrEmpty(response) == IF response.present THEN response.values ELSE << >>
\* lines 564, 586: rows.map(rowToFarmacia), rows.map(rowToMedico)
readResultReversed(op, rows) ==
  [i \in 1..Len(rows) |-> FromRow(FieldsOf(op), rows[Len(rows) + 1 - i])]
readResult(op, rows) ==
  [i \in 1..Len(rows) |->
     IF op = "readFarmacias" THEN rowToFarmacia(rows[i]) ELSE rowToMedico(rows[i])]

NoRequest == [kind |-> "none", spreadsheetId |-> NULL, tab |-> "", range |-> "", row |-> << >>]
\* lines 558-561, 580-583, 611-618, 648-655: the argument of values.get / values.append
DataRequest(op, spreadsheetId, entity) ==
  IF op \in ReadOps
  THEN [kind |-> "get", spreadsheetId |-> spreadsheetId, tab |-> TabOf(op), range |-> "A2:Z",
        row |-> << >>]
  ELSE [kind |-> "append", spreadsheetId |-> spreadsheetId, tab |-> TabOf(op), range |-> "A:Z",
        row |-> IF op = "writeFarmacia" THEN farmaciaToRow(entity) ELSE medicoToRow(entity)]

IdleTask ==
  [op |-> "none", pc |-> "idle", call |-> 0, result |-> NULL, error |-> "none",
   entry |-> NoSnapshot,      \* history: the session when the operation was called
   initialized |-> FALSE,     \* history: was tokenClient set when it was called
   ranSignIn |-> FALSE,       \* history: did the operation call signIn()
   requested |-> FALSE,       \* history: did it call requestAccessToken
   resp |-> NoResponse,       \* history: the provider response its callback got
   after |-> NoSnapshot,      \* history: the session when the operation settled
   authedAfter |-> FALSE,     \* history: isAuthenticated() when a signIn() settled
   \* ---- initializeSheet()
   stage |-> "none",          \* the tier whose call is awaited
   sheetArg |-> NULL,         \* the spreadsheetId that tier works on
   trace |-> << >>,           \* history: tiers entered and how each ended
   calls |-> NoCalls,         \* history: remote calls issued, per tier
   createReq |-> << >>,       \* history: the create requests issued
   headersReq |-> << >>,      \* history: the header batchUpdate requests issued
   remoteErr |-> NoError,     \* history: the last remote failure received
   cachedAtEntry |-> NULL,    \* history: the stored sheet id when called
   cachedAfter |-> NULL,      \* history: the stored sheet id when settled
   persisted |-> NULL,        \* history: the id this call stored, if any
   othersWrote |-> FALSE,     \* history: did anyone else write the stored id meanwhile
   files |-> << >>,           \* history: the ids drive.files.list answered with
   prev |-> NULL,             \* history: the handle this caller's preceding call returned
   \* ---- readFarmacias(), readMedicos(), writeFarmacia(), writeMedico()
   hadSession |-> FALSE,      \* history: was a session stored when it was called
   arg |-> << >>,             \* the partial entity passed to a write
   random |-> "",             \* what Math.random() gives this write's generateId()
   entity |-> << >>,          \* the entity a write built and returns
   dataReq |-> NoRequest,     \* history: the values.get / values.append request issued
   dataCalls |-> 0,           \* history: how many times that request was issued
   rows |-> << >>,            \* history: the rows the range read returned
   tabRows |-> 0,             \* history: the rows the tab held when it was read
   written |-> << >>,         \* history: the entities appended to the tab before the read
   entities |-> << >>]        \* the entities a read returns

EntrySnapshot == Snapshot(lsAccessToken, sessionExpiresAt, gapiToken, now)

StartTask(o) ==
  [IdleTask EXCEPT !.op = o, !.entry = EntrySnapshot, !.initialized = tokenClient]

\* lines 155, 196-204, 214-222: the stored session is present and unexpired
SessionPresent == ~(lsAccessToken = NULL \/ lsExpiresAt = NoDigits)
NotExpiredInclusive == LessOrEqual(now, parseInt(lsExpiresAt))
NotExpired == LessThan(now, parseInt(lsExpiresAt))

\* lines 192-205
isAuthenticated == IF ~SessionPresent THEN FALSE ELSE NotExpired

\* lines 125-164: what a signIn() call does at this instant
signInAlwaysRequests == IF ~tokenClient THEN "notInitialized" ELSE "request"
signInOutcome ==
  IF ~tokenClient THEN "notInitialized"
  ELSE IF SessionPresent /\ NotExpired THEN "reuse"
  ELSE "request"

\* lines 228-234: what getAccessToken returns after its signIn() settled
getAccessTokenResultNoCatch(signedIn, stored) == stored
getAccessTokenResult(signedIn, stored) == IF signedIn THEN stored ELSE NULL

\* line 134: reject(new Error(response.error)): the message of the rejection
signInRejectionGeneric(error) == "Sign in failed"
signInRejection(error) == error

\* line 139: expiresAt = Date.now() + parseInt(response.expires_in) * 1000
ExpiresAtSeconds(expires_in) == now + parseInt(expires_in)
ExpiresAt(expires_in) == now + parseInt(expires_in) * 1000

\* signIn() (lines 123-166), called by task t from the UI.
signIn(t) ==
  /\ task[t].pc = "idle"
  /\ LET st == [StartTask("signIn") EXCEPT !.ranSignIn = TRUE]
         k == nextSignIn
     IN CASE signInOutcome = "notInitialized" ->
               /\ task' = [task EXCEPT ![t] =
                    [st EXCEPT !.pc = "done", !.result = "rejected",
                               !.error = "Google Auth not initialized",
                               !.after = EntrySnapshot]]
               /\ UNCHANGED <<tokenCallback, signIns, nextSignIn, requested, gapiToken>>
          [] signInOutcome = "reuse" ->
               /\ k <= MaxSignIns
               /\ tokenCallback' = k
               /\ signIns' = [signIns EXCEPT ![k] = "resolved"]
               /\ nextSignIn' = k + 1
               /\ gapiToken' = lsAccessToken
               /\ task' = [task EXCEPT ![t] =
                    [st EXCEPT !.pc = "done", !.result = "resolved", !.call = k,
                               !.authedAfter = isAuthenticated,
                               !.after = Snapshot(lsAccessToken, parseInt(lsExpiresAt),
                                                  lsAccessToken, now)]]
               /\ UNCHANGED requested
          [] OTHER ->
               /\ k <= MaxSignIns
               /\ tokenCallback' = k
               /\ signIns' = [signIns EXCEPT ![k] = "pending"]
               /\ nextSignIn' = k + 1
               /\ requested' = requested \cup {k}
               /\ task' = [task EXCEPT ![t] =
                    [st EXCEPT !.pc = "awaitSignIn", !.call = k, !.requested = TRUE]]
               /\ UNCHANGED gapiToken
  /\ UNCHANGED <<sheets, now, initVars, hookVars, lsAccessToken, lsExpiresAt, lsSheetId, sessionExpiresAt>>

\* getAccessToken() (lines 210-235), called by task t.
getAccessToken(t) ==
  /\ task[t].pc = "idle"
  /\ LET st == StartTask("getAccessToken")
         k == nextSignIn
     IN IF ~SessionPresent
        THEN /\ task' = [task EXCEPT ![t] =
                  [st EXCEPT !.pc = "done", !.result = NULL, !.after = EntrySnapshot]]
             /\ UNCHANGED <<tokenCallback, signIns, nextSignIn, requested, gapiToken>>
        ELSE IF NotExpired
        THEN /\ task' = [task EXCEPT ![t] =
                  [st EXCEPT !.pc = "done", !.result = lsAccessToken, !.after = EntrySnapshot]]
             /\ UNCHANGED <<tokenCallback, signIns, nextSignIn, requested, gapiToken>>
        ELSE CASE signInOutcome = "notInitialized" ->
                    /\ task' = [task EXCEPT ![t] =
                         [st EXCEPT !.pc = "done", !.ranSignIn = TRUE,
                                    !.result = getAccessTokenResult(FALSE, lsAccessToken),
                                    !.error = "Google Auth not initialized",
                                    !.after = EntrySnapshot]]
                    /\ UNCHANGED <<tokenCallback, signIns, nextSignIn, requested, gapiToken>>
               [] signInOutcome = "reuse" ->
                    /\ k <= MaxSignIns
                    /\ tokenCallback' = k
                    /\ signIns' = [signIns EXCEPT ![k] = "resolved"]
                    /\ nextSignIn' = k + 1
                    /\ gapiToken' = lsAccessToken
                    /\ task' = [task EXCEPT ![t] =
                         [st EXCEPT !.pc = "done", !.call = k,
                                    !.result = getAccessTokenResult(TRUE, lsAccessToken),
                                    !.ranSignIn = TRUE,
                                    !.after = Snapshot(lsAccessToken, parseInt(lsExpiresAt),
                                                       lsAccessToken, now)]]
                    /\ UNCHANGED requested
               [] OTHER ->
                    /\ k <= MaxSignIns
                    /\ tokenCallback' = k
                    /\ signIns' = [signIns EXCEPT ![k] = "pending"]
                    /\ nextSignIn' = k + 1
                    /\ requested' = requested \cup {k}
                    /\ task' = [task EXCEPT ![t] =
                         [st EXCEPT !.pc = "awaitSignIn", !.call = k, !.ranSignIn = TRUE,
                                    !.requested = TRUE]]
                    /\ UNCHANGED gapiToken
  /\ UNCHANGED <<sheets, now, initVars, hookVars, lsAccessToken, lsExpiresAt, lsSheetId, sessionExpiresAt>>

isAuthenticatedCallAttaches(t) ==
  /\ task[t].pc = "idle"
  /\ task' = [task EXCEPT ![t] =
       [StartTask("isAuthenticated") EXCEPT
          !.pc = "done", !.result = IF isAuthenticated THEN "true" ELSE "false",
          !.after = EntrySnapshot]]
  /\ gapiToken' = lsAccessToken
  /\ UNCHANGED <<sheets, now, initVars, hookVars, lsAccessToken, lsExpiresAt, lsSheetId,
                 tokenCallback, signIns, nextSignIn, requested, sessionExpiresAt>>
\* isAuthenticated() (lines 192-205), called by task t: synchronous.
isAuthenticatedCall(t) ==
  /\ task[t].pc = "idle"
  /\ task' = [task EXCEPT ![t] =
       [StartTask("isAuthenticated") EXCEPT
          !.pc = "done", !.result = IF isAuthenticated THEN "true" ELSE "false",
          !.after = EntrySnapshot]]
  /\ UNCHANGED <<sheets, now, initVars, hookVars, lsAccessToken, lsExpiresAt, lsSheetId, gapiToken,
                 tokenCallback, signIns, nextSignIn, requested, sessionExpiresAt>>

\* gapi.client exists once the gapi.load('client') callback has been entered (line 76).
GapiClientAvailable == \E p \in PromiseIds : cbPc[p] # "none"

\* lines 172-186: how a signOut() call ends; revoke() (line 175) is called only when
\* a token is attached, gapi.client.getToken() (line 173) throws without gapi.client.
signOutOutcomeRejectsWithoutToken(revokeThrows) ==
  IF ~GapiClientAvailable THEN "gapi is not defined"
  ELSE IF gapiToken = NULL \/ revokeThrows THEN "revoke threw"
  ELSE "resolved"
signOutOutcome(revokeThrows) ==
  IF ~GapiClientAvailable THEN "gapi is not defined"
  ELSE IF gapiToken # NULL /\ revokeThrows THEN "revoke threw"
  ELSE "resolved"

\* lines 271-275: what localStorage holds after clearStoredTokens()
clearStoredTokensKeepsExpiry == [token |-> NULL, expiresAt |-> lsExpiresAt, sheetId |-> NULL]
clearStoredTokensKeepsSheetId == [token |-> NULL, expiresAt |-> NoDigits, sheetId |-> lsSheetId]
clearStoredTokens == [token |-> NULL, expiresAt |-> NoDigits, sheetId |-> NULL]

\* lines 173-176, 183-185: getToken() and revoke() throw before setToken(null) (line 178)
\* and clearStoredTokens() (line 181) are reached; the catch block rethrows.
signOutRejectedAfterDetach ==
  [gapi |-> NULL, token |-> lsAccessToken, expiresAt |-> lsExpiresAt, sheetId |-> lsSheetId]
signOutRejected ==
  [gapi |-> gapiToken, token |-> lsAccessToken, expiresAt |-> lsExpiresAt, sheetId |-> lsSheetId]

MarkOthersWroteAtSignOut(t) ==
  [u \in Tasks |->
     IF u = t
     THEN [StartTask("signOut") EXCEPT !.pc = "done", !.result = "resolved",
                                       !.after = Snapshot(NULL, -1, NULL, now)]
     ELSE IF task[u].op \in SheetOps /\ task[u].pc \notin {"idle", "done"}
     THEN [task[u] EXCEPT !.othersWrote = TRUE] ELSE task[u]]

\* signOut() (lines 171-187), called by task t: synchronous. revoke() may throw.
signOut(t) ==
  /\ task[t].pc = "idle"
  /\ \E revokeThrows \in BOOLEAN :
       IF signOutOutcome(revokeThrows) # "resolved"
       THEN /\ task' = [task EXCEPT ![t] =
                 [StartTask("signOut") EXCEPT !.pc = "done", !.result = "rejected",
                                              !.error = signOutOutcome(revokeThrows),
                                              !.after = EntrySnapshot]]
            /\ gapiToken' = signOutRejected.gapi
            /\ lsAccessToken' = signOutRejected.token
            /\ lsExpiresAt' = signOutRejected.expiresAt
            /\ lsSheetId' = signOutRejected.sheetId
            /\ UNCHANGED sessionExpiresAt
       ELSE /\ gapiToken' = NULL
            /\ lsAccessToken' = clearStoredTokens.token
            /\ lsExpiresAt' = clearStoredTokens.expiresAt
            /\ lsSheetId' = clearStoredTokens.sheetId
            /\ sessionExpiresAt' = -1
            /\ task' = MarkOthersWroteAtSignOut(t)
  /\ UNCHANGED <<sheets, now, initVars, hookVars, tokenCallback, signIns, nextSignIn, requested>>

\* clearSheetId() (lines 254-256): what the three localStorage entries hold after it
StorageAfterClearAll == clearStoredTokens
StorageAfterClearSheetId ==
  [token |-> lsAccessToken, expiresAt |-> lsExpiresAt, sheetId |-> NULL]

\* clearSheetId(), called by task t: synchronous.
clearSheetId(t) ==
  /\ task[t].pc = "idle"
  /\ lsAccessToken' = StorageAfterClearSheetId.token
  /\ lsExpiresAt' = StorageAfterClearSheetId.expiresAt
  /\ lsSheetId' = StorageAfterClearSheetId.sheetId
  /\ task' = [u \in Tasks |->
       IF u = t THEN [StartTask("clearSheetId") EXCEPT !.pc = "done", !.result = "resolved"]
       ELSE IF task[u].op \in SheetOps /\ task[u].pc \notin {"idle", "done"}
       THEN [task[u] EXCEPT !.othersWrote = TRUE] ELSE task[u]]
  /\ UNCHANGED <<sheets, now, initVars, hookVars, gapiToken, sessionExpiresAt, tokenCallback,
                 signIns, nextSignIn, requested>>

\* ------------------------------------------------------------ initializeSheet
\* The in-memory state a chain of synchronous steps reads and writes.
Mem ==
  [cb |-> tokenCallback, signIns |-> signIns, next |-> nextSignIn, req |-> requested,
   gapi |-> gapiToken]
Outcome(m, tk, ok) == [m |-> m, tk |-> tk, ok |-> ok]

\* ensureAuthenticated() (lines 370-381) at this instant: "ok" (token valid, it is
\* attached), "popup" (expired: getAccessToken awaits signIn's token request) or
\* "fail" (getAccessToken returned null: throws 'Not authenticated').
AuthNow ==
  IF ~SessionPresent THEN "fail"
  ELSE IF NotExpired THEN "ok"
  ELSE IF signInOutcome = "notInitialized" THEN "fail"
  ELSE "popup"

\* The remote call of tier S goes out (lines 392, 462, 508, 540); for "data", that
\* of the record operation (558, 580, 611, 648), a write building its entity first.
IssueCall(tk, S) ==
  IF S = "data"
  THEN LET entity == IF tk.op \in WriteOps THEN NewEntity(FieldsOf(tk.op), tk.arg, tk.random)
                     ELSE << >>
       IN [tk EXCEPT !.pc = "awaitRemote", !.stage = S, !.entity = entity,
                     !.dataCalls = @ + 1,
                     !.dataReq = DataRequest(tk.op, tk.sheetArg, entity)]
  ELSE
  [tk EXCEPT !.pc = "awaitRemote", !.stage = S, !.calls[S] = @ + 1,
             !.createReq = IF S = "create" THEN Append(@, CreateRequest) ELSE @,
             !.headersReq = IF S = "headers" THEN Append(@, HeadersRequest(tk.sheetArg)) ELSE @]

ThrownByRemoteUnwrapped(S, id, e) == Error(extractErrorMessage(e))

\* The error that leaves tier S's function when its remote call failed with e:
\* verifySheetExists (543-546), findExistingSheet (406-410), createSheet (494-498),
\* writeHeaders (526-530) inside createSheet's try. A record operation's own call
\* ("data") is not wrapped before the operation's catch.
ThrownByRemote(S, id, e) ==
  CASE S = "data" -> e
    [] S = "verify" ->
         Error("Sheet not found or not accessible (" \o id \o "): " \o extractErrorMessage(e))
    [] S = "search" -> Error("Failed to search for existing sheet: " \o extractErrorMessage(e))
    [] S = "create" -> Error("Failed to create sheet: " \o extractErrorMessage(e))
    [] OTHER ->
         Error("Failed to create sheet: "
               \o extractErrorMessage(Error("Failed to write headers: " \o extractErrorMessage(e))))

\* The error that leaves tier S's function when its ensureAuthenticated() threw:
\* only writeHeaders is called inside a try of the tier (line 491).
ThrownByAuthGeneric(S) == Error("Request failed")
ThrownByAuth(S) ==
  IF S = "headers"
  THEN Error("Failed to create sheet: " \o extractErrorMessage(Error("Not authenticated")))
  ELSE Error("Not authenticated")

\* The error that leaves tier S's function when gapi.client.setToken (line 378)
\* is reached before gapi.client exists.
ThrownBySetToken(S) ==
  IF S = "headers"
  THEN Error("Failed to create sheet: " \o extractErrorMessage(Error("gapi is not defined")))
  ELSE Error("gapi is not defined")

\* initializeSheet rejects with what was thrown; a record operation's catch (565-568,
\* 587-590, 622-625, 657-660) wraps it.
SheetRejected(tk, thrown) ==
  [tk EXCEPT !.pc = "done", !.result = "rejected",
             !.error = IF tk.op \in RecordOps
                       THEN FailurePrefix(tk.op) \o extractErrorMessage(thrown)
                       ELSE thrown.message,
             !.cachedAfter = IF tk.persisted # NULL THEN tk.persisted ELSE lsSheetId]

\* The handle is returned; stored first when it was found or created (435, 447).
SheetResolved(tk, id, store) ==
  [tk EXCEPT !.pc = "done", !.result = id,
             !.persisted = IF store THEN id ELSE NULL,
             !.cachedAfter = IF store THEN id ELSE lsSheetId]

\* line 439-441: what initializeSheet does when findExistingSheet() threw
AfterSearchFailureRethrow == "rethrow"
AfterSearchFailure == "create"

RECURSIVE EnterStage(_, _, _)
RECURSIVE StageFailed(_, _, _, _)

\* initializeSheet (lines 417-453) calls tier S: its ensureAuthenticated() runs now.
EnterStage(m, tk, S) ==
  LET tk1 == [tk EXCEPT !.trace = Append(@, S), !.stage = S, !.remoteErr = NoError] IN
  CASE AuthNow = "ok" ->
         IF GapiClientAvailable
         THEN Outcome([m EXCEPT !.gapi = lsAccessToken], IssueCall(tk1, S), TRUE)
         ELSE StageFailed(m, tk1, S, ThrownBySetToken(S))
    [] AuthNow = "popup" ->
         IF m.next > MaxSignIns THEN Outcome(m, tk1, FALSE)
         ELSE Outcome([m EXCEPT !.cb = m.next,
                                !.signIns = [@ EXCEPT ![m.next] = "pending"],
                                !.next = @ + 1,
                                !.req = @ \cup {m.next}],
                      [tk1 EXCEPT !.pc = "awaitSignIn", !.call = m.next,
                                  !.ranSignIn = TRUE, !.requested = TRUE],
                      TRUE)
    [] OTHER -> StageFailed(m, tk1, S, ThrownByAuth(S))

\* lines 565-568, 621-625: what a record operation does when its own remote call
\* was rejected
AfterDataFailureRetry == "retry"
AfterDataFailure == "rethrow"

\* Tier S's function threw: the catches of initializeSheet (426, 439, 449) and of
\* the record operations.
StageFailed(m, tk, S, thrown) ==
  LET tk1 == [tk EXCEPT !.trace = Append(@, S \o ":fail")] IN
  CASE S = "verify" -> EnterStage(m, tk1, "search")
    [] S = "data" /\ AfterDataFailure = "retry" /\ tk.pc = "awaitRemote" /\ tk.dataCalls < 2 ->
         Outcome(m, IssueCall(tk1, "data"), TRUE)
    [] S = "search" ->
         IF AfterSearchFailure = "create" THEN EnterStage(m, tk1, "create")
         ELSE Outcome(m, SheetRejected(tk1, thrown), TRUE)
    [] OTHER -> Outcome(m, SheetRejected(tk1, thrown), TRUE)

\* initializeSheet() has its handle: it returns it; a record operation goes on with
\* its own ensureAuthenticated() and call (lines 554-556, 576-578, 598-600, 633-635).
AfterSheet(m, tk) ==
  IF tk.op \in RecordOps
  THEN EnterStage(m, [tk EXCEPT !.pc = "running", !.sheetArg = tk.result, !.result = NULL], "data")
  ELSE Outcome(m, tk, TRUE)

\* Every other running initializeSheet() notes that the stored id was written.
MarkOthersWrote(tks, t) ==
  [u \in Tasks |->
     IF u # t /\ tks[u].op \in SheetOps /\ tks[u].pc \notin {"idle", "done"}
     THEN [tks[u] EXCEPT !.othersWrote = TRUE] ELSE tks[u]]

ApplyOutcome(t, r) ==
  /\ r.ok
  /\ tokenCallback' = r.m.cb
  /\ signIns' = r.m.signIns
  /\ nextSignIn' = r.m.next
  /\ requested' = r.m.req
  /\ gapiToken' = r.m.gapi
  /\ task' = IF r.tk.persisted # NULL /\ task[t].persisted = NULL
             THEN MarkOthersWrote([task EXCEPT ![t] = r.tk], t)
             ELSE [task EXCEPT ![t] = r.tk]
  /\ lsSheetId' = IF r.tk.persisted # NULL /\ task[t].persisted = NULL THEN r.tk.persisted
                  ELSE lsSheetId

\* lines 419-421: the tier initializeSheet starts with
FirstTierAlwaysSearch == "search"
FirstTier == IF lsSheetId # NULL THEN "verify" ELSE "search"

\* initializeSheet() (lines 417-453), called by task t.
initializeSheet(t) ==
  /\ task[t].pc = "idle"
  /\ LET tk == [IdleTask EXCEPT !.op = "initializeSheet", !.initialized = tokenClient,
                                !.hadSession = SessionPresent, !.prev = task[t].prev,
                                !.cachedAtEntry = lsSheetId, !.sheetArg = lsSheetId]
     IN ApplyOutcome(t, EnterStage(Mem, tk, FirstTier))
  /\ UNCHANGED <<now, initVars, hookVars, lsAccessToken, lsExpiresAt, sessionExpiresAt, sheets>>

\* readFarmacias() / readMedicos() (lines 552-591), called by task t.
readRecords(t, op) ==
  /\ task[t].pc = "idle"
  /\ LET tk == [IdleTask EXCEPT !.op = op, !.initialized = tokenClient,
                                !.hadSession = SessionPresent,
                                !.cachedAtEntry = lsSheetId, !.sheetArg = lsSheetId]
     IN ApplyOutcome(t, EnterStage(Mem, tk, FirstTier))
  /\ UNCHANGED <<now, initVars, hookVars, lsAccessToken, lsExpiresAt, sessionExpiresAt, sheets>>

\* writeFarmacia(partial) / writeMedico(partial) (lines 596-661), called by task t.
writeRecord(t, op, partial, random) ==
  /\ task[t].pc = "idle"
  /\ LET tk == [IdleTask EXCEPT !.op = op, !.initialized = tokenClient,
                                !.hadSession = SessionPresent,
                                !.arg = partial, !.random = random,
                                !.cachedAtEntry = lsSheetId, !.sheetArg = lsSheetId]
     IN ApplyOutcome(t, EnterStage(Mem, tk, FirstTier))
  /\ UNCHANGED <<now, initVars, hookVars, lsAccessToken, lsExpiresAt, sessionExpiresAt, sheets>>

SheetIndex(id) == CHOOSE n \in 1..Len(SheetNames) : SheetNames[n] = id
\* spreadsheets.get (line 540) answers for a spreadsheet that exists on the remote.
IsKnown(id) == SheetIndex(id) \in SheetIds /\ sheets[SheetIndex(id)].state # "none"
IsLive(id) == SheetIndex(id) \in SheetIds /\ sheets[SheetIndex(id)].state = "live"

\* drive.files.list (lines 392-397): the untrashed spreadsheets named SHEET_TITLE,
\* most recently created first.
RECURSIVE Descending(_)
Descending(S) ==
  IF S = {} THEN << >>
  ELSE LET mx == CHOOSE n \in S : \A k \in S : k <= n IN <<mx>> \o Descending(S \ {mx})
ListFiles ==
  LET d == Descending({n \in SheetIds : sheets[n].state = "live" /\ sheets[n].title = SHEET_TITLE})
  IN [i \in 1..Len(d) |-> SheetNames[d[i]]]

\* spreadsheets.create on the remote: a new spreadsheet with the requested tabs, empty.
\* log: history, the entities the write operations appended to each tab.
NoSheet == [state |-> "none", title |-> "", grid |-> << >>, log |-> << >>]
Created(req) ==
  [state |-> "live", title |-> req.title,
   grid |-> [tab \in {req.tabs[i] : i \in 1..Len(req.tabs)} |-> << >>],
   log |-> [tab \in {req.tabs[i] : i \in 1..Len(req.tabs)} |-> << >>]]

\* values.append on the remote ("<tab>!A:Z", RAW): the row goes below the last row
\* of the tab, the first row when the tab is empty.
AppendRow(rows, row) == Append(rows, [i \in 1..Len(row) |-> FormattedValue(row[i])])

\* values.batchUpdate on the remote: each range's rows overwrite the rows from row 1.
RECURSIVE Written(_, _)
Written(grid, data) ==
  IF data = << >> THEN grid
  ELSE LET d == Head(data)
           old == grid[d.tab]
           rows == d.values \o SubSeq(old, Len(d.values) + 1, Len(old))
       IN Written([grid EXCEPT ![d.tab] = rows], Tail(data))

RECURSIVE SumLen(_, _)
SumLen(f, S) ==
  IF S = {} THEN 0 ELSE LET x == CHOOSE x \in S : TRUE IN Len(f[x]) + SumLen(f, S \ {x})
RECURSIVE RowsWrittenIn(_)
RowsWrittenIn(S) ==
  IF S = {} THEN 0
  ELSE LET n == CHOOSE n \in S : TRUE
       IN SumLen(sheets[n].log, DOMAIN sheets[n].log) + RowsWrittenIn(S \ {n})
RowsWritten == RowsWrittenIn(SheetIds)

\* lines 400-404: files[0].id of a non-empty answer
LastMatch(files) == files[Len(files)]
FirstMatch(files) == files[1]

NextSheetIndex == Cardinality({n \in SheetIds : sheets[n].state # "none"}) + 1

\* The remote call task t awaits succeeds, and initializeSheet goes on.
RemoteSuccess(t) ==
  /\ task[t].pc = "awaitRemote"
  /\ LET tk == task[t]
         S == tk.stage
         ok(ev) == [tk EXCEPT !.trace = Append(@, ev)]
     IN CASE S = "verify" ->
               /\ IsLive(tk.sheetArg)
               /\ ApplyOutcome(t, AfterSheet(Mem, SheetResolved(ok("verify:ok"), tk.sheetArg, FALSE)))
               /\ UNCHANGED sheets
          [] S = "search" ->
               /\ IF ListFiles # << >>
                  THEN ApplyOutcome(t, AfterSheet(Mem,
                         SheetResolved([ok("search:match") EXCEPT !.files = ListFiles],
                                       FirstMatch(ListFiles), TRUE)))
                  ELSE ApplyOutcome(t, EnterStage(Mem, ok("search:nomatch"), "create"))
               /\ UNCHANGED sheets
          [] S = "create" ->
               /\ NextSheetIndex <= MaxSheets
               /\ sheets' = [sheets EXCEPT ![NextSheetIndex] = Created(tk.createReq[Len(tk.createReq)])]
               /\ ApplyOutcome(t, EnterStage(Mem, [ok("create:ok") EXCEPT !.sheetArg = SheetNames[NextSheetIndex]],
                                             "headers"))
          [] S = "data" ->
               /\ IsLive(tk.sheetArg)
               /\ tk.dataReq.tab \in DOMAIN sheets[SheetIndex(tk.sheetArg)].grid
               /\ LET n == SheetIndex(tk.sheetArg)
                      tab == tk.dataReq.tab
                      response == GetValues(sheets[n].grid[tab])
                      rows == ValuesOrEmpty(response)
                  IN IF tk.dataReq.kind = "get"
                     THEN /\ ApplyOutcome(t, Outcome(Mem,
                               [ok("data:ok") EXCEPT !.pc = "done", !.result = "resolved",
                                  !.rows = rows, !.tabRows = Len(sheets[n].grid[tab]),
                                  !.written = sheets[n].log[tab],
                                  !.entities = readResult(tk.op, rows)], TRUE))
                          /\ UNCHANGED sheets
                     ELSE /\ RowsWritten < MaxRows
                          /\ sheets' = [sheets EXCEPT
                               ![n].grid[tab] = AppendRow(@, tk.dataReq.row),
                               ![n].log[tab] = Append(@, tk.entity)]
                          /\ ApplyOutcome(t, Outcome(Mem,
                               [ok("data:ok") EXCEPT !.pc = "done", !.result = "resolved"], TRUE))
          [] OTHER ->
               /\ IsLive(tk.sheetArg)
               /\ LET req == tk.headersReq[Len(tk.headersReq)] IN
                  /\ \A i \in 1..Len(req.data) : req.data[i].tab \in DOMAIN sheets[SheetIndex(req.spreadsheetId)].grid
                  /\ sheets' = [sheets EXCEPT ![SheetIndex(req.spreadsheetId)].grid = Written(@, req.data)]
               /\ ApplyOutcome(t, AfterSheet(Mem, SheetResolved(ok("headers:ok"), tk.sheetArg, TRUE)))
  /\ UNCHANGED <<now, initVars, hookVars, lsAccessToken, lsExpiresAt, sessionExpiresAt>>

\* spreadsheets.create answers without a spreadsheetId (lines 482-486): the throw
\* is caught by createSheet's own catch (494-498).
CreateAnswersWithoutId(t) ==
  /\ task[t].pc = "awaitRemote"
  /\ task[t].stage = "create"
  /\ ApplyOutcome(t, StageFailed(Mem, task[t], "create",
       Error("Failed to create sheet: "
             \o extractErrorMessage(Error("Failed to create sheet - no spreadsheet ID returned")))))
  /\ UNCHANGED <<now, initVars, hookVars, lsAccessToken, lsExpiresAt, sessionExpiresAt, sheets>>

\* The remote call task t awaits is rejected with e, and initializeSheet goes on.
RemoteFailure(t, e) ==
  /\ task[t].pc = "awaitRemote"
  /\ LET tk == [task[t] EXCEPT !.remoteErr = e]
     IN ApplyOutcome(t, StageFailed(Mem, tk, tk.stage, ThrownByRemote(tk.stage, tk.sheetArg, e)))
  /\ UNCHANGED <<now, initVars, hookVars, lsAccessToken, lsExpiresAt, sessionExpiresAt, sheets>>

\* Someone deletes the spreadsheet in the Drive UI.
ExternalDelete(n) ==
  /\ sheets[n].state = "live"
  /\ sheets' = [sheets EXCEPT ![n].state = "trashed"]
  /\ UNCHANGED <<now, initVars, hookVars, lsAccessToken, lsExpiresAt, lsSheetId, gapiToken,
                 tokenCallback, signIns, nextSignIn, requested, task, sessionExpiresAt>>

\* ------------------------------------------------------- the token provider
\* The task that awaits signIn call k, while its promise is pending.
Awaiting(k) ==
  {t \in Tasks : task[t].pc = "awaitSignIn" /\ task[t].call = k /\ signIns[k] = "pending"}

\* The provider answers the popup of call k with an error: the current
\* tokenClient.callback runs (lines 131-136) and rejects its promise; the awaiting
\* operation goes on: signIn rejects, getAccessToken returns null (line 233) and
\* ensureAuthenticated throws (line 374).
ProviderError(k, error) ==
  /\ k \in requested
  /\ LET o == tokenCallback
         r == [kind |-> "error", token |-> NULL, expiresIn |-> -1, at |-> now, error |-> error]
         m1 == [Mem EXCEPT !.req = @ \ {k},
                           !.signIns = [@ EXCEPT ![o] = IF @ = "pending" THEN "rejected" ELSE @]]
     IN IF Awaiting(o) = {}
        THEN /\ requested' = m1.req
             /\ signIns' = m1.signIns
             /\ UNCHANGED <<tokenCallback, nextSignIn, gapiToken, task, lsSheetId>>
        ELSE LET t == CHOOSE t \in Awaiting(o) : TRUE
                 tk == task[t]
             IN IF tk.op \in SheetOps
                THEN ApplyOutcome(t, StageFailed(m1, tk, tk.stage, ThrownByAuth(tk.stage)))
                ELSE ApplyOutcome(t, Outcome(m1,
                       [tk EXCEPT !.pc = "done", !.resp = r,
                                  !.result = IF tk.op = "signIn" THEN "rejected"
                                             ELSE getAccessTokenResult(FALSE, lsAccessToken),
                                  !.error = signInRejection(error), !.after = EntrySnapshot],
                       TRUE))
  /\ UNCHANGED <<sheets, now, initVars, hookVars, lsAccessToken, lsExpiresAt, sessionExpiresAt>>

\* The provider answers the popup of call k with a token: the current
\* tokenClient.callback runs (lines 138-148): storeTokens, setToken, resolve; the
\* awaiting operation goes on: getAccessToken re-reads the stored token (line 230)
\* and ensureAuthenticated attaches it before the tier's remote call goes out.
ProviderSuccess(k, access_token, expires_in) ==
  /\ k \in requested
  /\ UNCHANGED <<sheets, now, initVars, hookVars, lsSheetId, tokenCallback, nextSignIn>>
  /\ LET o == tokenCallback
         expiresAt == ExpiresAt(expires_in)
         r == [kind |-> "ok", token |-> access_token, expiresIn |-> DigitsValue(expires_in),
               at |-> now, error |-> "none"]
     IN /\ requested' = requested \ {k}
        /\ lsAccessToken' = access_token
        /\ lsExpiresAt' = toString(expiresAt)
        /\ sessionExpiresAt' = expiresAt
        /\ signIns' = [signIns EXCEPT ![o] = IF @ = "pending" THEN "resolved" ELSE @]
        /\ gapiToken' = IF \E t \in Awaiting(o) : task[t].op \notin {"signIn", "getAccessToken"}
                        THEN getAccessTokenResult(TRUE, lsAccessToken')
                        ELSE access_token
        /\ task' = [t \in Tasks |->
             IF t \in Awaiting(o)
             THEN IF task[t].op \in SheetOps
                  THEN IssueCall(task[t], task[t].stage)
                  ELSE [task[t] EXCEPT
                     !.pc = "done",
                     !.result = IF task[t].op = "signIn" THEN "resolved"
                                ELSE getAccessTokenResult(TRUE, lsAccessToken'),
                     !.resp = r,
                     !.authedAfter = isAuthenticated',
                     !.after = Snapshot(lsAccessToken', parseInt(lsExpiresAt'), gapiToken', now)]
             ELSE task[t]]

\* The caller has its result and the task slot is free for the next operation.
TaskReturns(t) ==
  /\ task[t].pc = "done"
  /\ task' = [task EXCEPT ![t] =
       [IdleTask EXCEPT !.prev = IF task[t].op = "initializeSheet" /\ task[t].result # "rejected"
                                 THEN task[t].result ELSE NULL]]
  /\ UNCHANGED <<sheets, now, initVars, hookVars, lsAccessToken, lsExpiresAt, lsSheetId, gapiToken,
                 tokenCallback, signIns, nextSignIn, requested, sessionExpiresAt>>

\* The page is loaded again: localStorage survives, the module state starts over
\* (lines 20-23), and initializeGoogleApi() has or has not completed since.
PageReload ==
  /\ \E inited \in BOOLEAN :
       /\ tokenClient' = inited
       /\ gapiInited' = inited
       /\ gisInited' = inited
       /\ initPromise' = IF inited THEN 1 ELSE 0
       /\ promises' = [promises EXCEPT ![1] =
            IF inited THEN [state |-> "fulfilled", error |-> "none"]
            ELSE [state |-> "unused", error |-> "none"]]
       /\ nextPromise' = IF inited THEN 2 ELSE 1
       /\ outerPc' = [outerPc EXCEPT ![1] = IF inited THEN "done" ELSE "none"]
       /\ cbPc' = [cbPc EXCEPT ![1] = IF inited THEN "done" ELSE "none"]
       /\ gapiLoaded' = inited
       /\ gisLoaded' = inited
  /\ gapiToken' = NULL
  /\ tokenCallback' = 0
  /\ signIns' = [k \in SignInIds |-> IF signIns[k] = "pending" THEN "abandoned" ELSE signIns[k]]
  /\ requested' = {}
  /\ task' = [t \in Tasks |-> IdleTask]
  /\ intervals' = [q \in PromiseIds |-> NoIntervals]
  /\ UNCHANGED <<now, nextSignIn, waitStart, callerPc, callerPromise, callerError, callerPendingAtEntry,
                 callerStarted, lsAccessToken, lsExpiresAt, lsSheetId, sessionExpiresAt,
                 sheets, hookVars>>

\* The clock reaches an instant around the stored expiry.
TickAuth ==
  /\ lsExpiresAt # NoDigits
  /\ \E d \in {-1, 0, 1} :
       /\ parseInt(lsExpiresAt) + d > now
       /\ parseInt(lsExpiresAt) + d <= MaxAuthNow
       /\ now' = parseInt(lsExpiresAt) + d
  /\ UNCHANGED <<initVars, hookVars, authVars>>

\* ------------------------------------------------------- useGoogleSheetsData
\* The hook (useGoogleSheetsData.ts) over the service: each service call is a promise
\* that the service settles later, or has settled already.
Loads == 1..NumLoads
Adds == 1..NumAdds
Items == {"e1", "e2"}
ReadResults == {<< >>, <<"e2", "e1">>}
NoCall == [st |-> "none", error |-> "", value |-> << >>]
PendingCall == [st |-> "pending", error |-> "", value |-> << >>]
IdleLoad == [pc |-> "idle", farmacias |-> NoCall, medicos |-> NoCall, joined |-> "none"]
IdleAdd == [pc |-> "idle", op |-> "none", arg |-> "", result |-> "", error |-> "",
            before |-> << >>,
            \* history: when the write resolved, a run of loadData was waiting for its
            \* other read with this list already read, the new item not in it
            readBefore |-> FALSE]
\* lines 394-399: useState's initial value
InitialState == [status |-> "idle", medicos |-> << >>, farmacias |-> << >>, error |-> NULL]
HookInitial ==
  /\ state = InitialState
  /\ load = [r \in Loads |-> IdleLoad]
  /\ add = [a \in Adds |-> IdleAdd]

serviceVars == <<now, initVars, authVars>>

\* What initializeSheet() rejects with, and what a read rejects with.
SheetFailures == {"Not authenticated", "Failed to create sheet: Network down"}
ReadFailures(op) == {FailurePrefix(op) \o "Network down", FailurePrefix(op) \o "Not authenticated"}

\* lines 405-412, 415-422: the two early error states
InitFailedState ==
  [error |-> "Failed to initialize Google API. Please refresh the page.",
   farmacias |-> << >>, medicos |-> << >>, status |-> "error"]
NotAuthenticatedState ==
  [error |-> "Not authenticated. Please connect to Google Sheets.",
   farmacias |-> << >>, medicos |-> << >>, status |-> "error"]
\* lines 443-447: setState((prev) => ({ ...prev, status: 'error', error: errorMessage }))
CatchStateClearsLists(prev, errorMessage) ==
  [status |-> "error", medicos |-> << >>, farmacias |-> << >>, error |-> errorMessage]
CatchState(prev, errorMessage) == [prev EXCEPT !.status = "error", !.error = errorMessage]
\* lines 431-436
SuccessState(farmacias, medicos) ==
  [status |-> "success", medicos |-> medicos, farmacias |-> farmacias, error |-> NULL]

\* loadData() after its await initializeGoogleApi() (lines 403-426): the run and
\* the state it leaves, initializeSheet() called when it got that far.
AfterInitIgnoresExpiry(r, ok) ==
  IF ~ok THEN /\ state' = InitFailedState
              /\ load' = [load EXCEPT ![r].pc = "done"]
  ELSE IF ~SessionPresent THEN /\ state' = NotAuthenticatedState
                               /\ load' = [load EXCEPT ![r].pc = "done"]
  ELSE /\ state' = [state EXCEPT !.status = "loading", !.error = NULL]
       /\ load' = [load EXCEPT ![r].pc = "awaitSheet"]
AfterInit(r, ok) ==
  IF ~ok THEN /\ state' = InitFailedState
              /\ load' = [load EXCEPT ![r].pc = "done"]
  ELSE IF ~isAuthenticated THEN /\ state' = NotAuthenticatedState
                                /\ load' = [load EXCEPT ![r].pc = "done"]
  ELSE /\ state' = [state EXCEPT !.status = "loading", !.error = NULL]
       /\ load' = [load EXCEPT ![r].pc = "awaitSheet"]

\* loadData() is called (on mount, or by reload): it runs to its first await that
\* is not settled yet.
loadData(r) ==
  /\ load[r].pc = "idle"
  /\ \E outcome \in {"pending", "resolved", "rejected"} :
       IF outcome = "pending"
       THEN /\ load' = [load EXCEPT ![r] = [IdleLoad EXCEPT !.pc = "awaitInit"]]
            /\ UNCHANGED state
       ELSE AfterInit(r, outcome = "resolved")
  /\ UNCHANGED <<add, serviceVars>>

\* The promise of initializeGoogleApi() that run r awaits settles.
InitSettles(r, ok) ==
  /\ load[r].pc = "awaitInit"
  /\ AfterInit(r, ok)
  /\ UNCHANGED <<add, serviceVars>>

\* initializeSheet() of run r resolves: both reads are called (line 429).
SheetResolves(r) ==
  /\ load[r].pc = "awaitSheet"
  /\ load' = [load EXCEPT ![r] = [@ EXCEPT !.pc = "awaitReads", !.farmacias = PendingCall,
                                          !.medicos = PendingCall]]
  /\ UNCHANGED <<state, add, serviceVars>>

\* initializeSheet() of run r rejects: the catch at lines 439-448.
SheetRejects(r, message) ==
  /\ load[r].pc = "awaitSheet"
  /\ state' = CatchState(state, message)
  /\ load' = [load EXCEPT ![r].pc = "done", ![r].joined = "rejected"]
  /\ UNCHANGED <<add, serviceVars>>

Other(which) == IF which = "farmacias" THEN "medicos" ELSE "farmacias"

\* One read of run r resolves with value; Promise.all resolves with the second one.
ReadResolves(r, which, value) ==
  /\ load[r][which].st = "pending"
  /\ LET l == [load[r] EXCEPT ![which] = [st |-> "resolved", value |-> value, error |-> ""]]
     IN IF l.pc = "awaitReads" /\ l[Other(which)].st = "resolved"
        THEN /\ state' = SuccessState(l.farmacias.value, l.medicos.value)
             /\ load' = [load EXCEPT ![r] = [l EXCEPT !.pc = "done", !.joined = "resolved"]]
        ELSE /\ load' = [load EXCEPT ![r] = l]
             /\ UNCHANGED state
  /\ UNCHANGED <<add, serviceVars>>

\* One read of run r rejects; Promise.all rejects with the first rejection.
ReadRejects(r, which, message) ==
  /\ load[r][which].st = "pending"
  /\ LET l == [load[r] EXCEPT ![which] = [st |-> "rejected", value |-> << >>, error |-> message]]
     IN IF l.pc = "awaitReads"
        THEN /\ state' = CatchState(state, message)
             /\ load' = [load EXCEPT ![r] = [l EXCEPT !.pc = "done", !.joined = "rejected"]]
        ELSE /\ load' = [load EXCEPT ![r] = l]
             /\ UNCHANGED state
  /\ UNCHANGED <<add, serviceVars>>

\* The run is over and both reads have settled.
LoadReturns(r) ==
  /\ load[r].pc = "done"
  /\ load[r].farmacias.st # "pending"
  /\ load[r].medicos.st # "pending"
  /\ load' = [load EXCEPT ![r] = IdleLoad]
  /\ UNCHANGED <<state, add, serviceVars>>

Has(tr, ev) == \E i \in 1..Len(tr) : tr[i] = ev
WriteOf(op) == IF op = "addFarmacia" THEN "writeFarmacia" ELSE "writeMedico"
ListOf(op) == IF op = "addFarmacia" THEN "farmacias" ELSE "medicos"

\* addFarmacia(farmacia) / addMedico(medico) is called (lines 458-460, 474-476):
\* it awaits writeFarmacia / writeMedico.
addEntity(a, op, item) ==
  /\ add[a].pc = "idle"
  /\ Len(state[ListOf(op)]) < MaxList
  /\ add' = [add EXCEPT ![a] = [IdleAdd EXCEPT !.pc = "awaitWrite", !.op = op, !.arg = item,
                                               !.before = state[ListOf(op)]]]
  /\ UNCHANGED <<state, load, serviceVars>>

\* The write resolves with the new entity (lines 462-467, 478-483).
WriteResolves(a) ==
  /\ add[a].pc = "awaitWrite"
  /\ state' = [state EXCEPT ![ListOf(add[a].op)] = Append(@, add[a].arg)]
  /\ add' = [add EXCEPT ![a].pc = "done", ![a].result = add[a].arg,
                         ![a].readBefore =
                           \E r \in Loads :
                             /\ load[r].pc = "awaitReads"
                             /\ load[r][ListOf(add[a].op)].st = "resolved"
                             /\ ~Has(load[r][ListOf(add[a].op)].value, add[a].arg)]
  /\ UNCHANGED <<load, serviceVars>>

\* The write rejects: the catch rethrows (lines 468-471, 484-487).
WriteRejects(a, cause) ==
  /\ add[a].pc = "awaitWrite"
  /\ add' = [add EXCEPT ![a].pc = "done", ![a].error = FailurePrefix(WriteOf(add[a].op)) \o cause]
  /\ UNCHANGED <<state, load, serviceVars>>

AddReturns(a) ==
  /\ add[a].pc = "done"
  /\ add' = [add EXCEPT ![a] = IdleAdd]
  /\ UNCHANGED <<state, load, serviceVars>>

ExpiresInChoices == {toString(n) : n \in 0..MaxExpiresIn}

AuthInitial ==
  /\ lsAccessToken = NULL
  /\ lsExpiresAt = NoDigits
  /\ lsSheetId = NULL
  /\ gapiToken = NULL
  /\ tokenCallback = 0
  /\ signIns = [k \in SignInIds |-> "unused"]
  /\ nextSignIn = 1
  /\ requested = {}
  /\ task = [t \in Tasks |-> IdleTask]
  /\ sessionExpiresAt = -1
  /\ sheets = [n \in SheetIds |-> NoSheet]

\* The state once initializeGoogleApi() has resolved ("Must be called before any
\* other auth operations", line 48), or before any call of it.
InitializedOrNot ==
  /\ initPromise \in {0, 1}
  /\ gapiInited = (initPromise = 1)
  /\ gisInited = (initPromise = 1)
  /\ tokenClient = (initPromise = 1)
  /\ promises = [p \in PromiseIds |->
       IF p = 1 /\ initPromise = 1 THEN [state |-> "fulfilled", error |-> "none"]
       ELSE [state |-> "unused", error |-> "none"]]
  /\ nextPromise = IF initPromise = 1 THEN 2 ELSE 1
  /\ outerPc = [p \in PromiseIds |-> IF p = 1 /\ initPromise = 1 THEN "done" ELSE "none"]
  /\ cbPc = [p \in PromiseIds |-> IF p = 1 /\ initPromise = 1 THEN "done" ELSE "none"]
  /\ waitStart = [p \in PromiseIds |-> 0]
  /\ intervals = [p \in PromiseIds |-> NoIntervals]
  /\ gapiLoaded = (initPromise = 1)
  /\ gisLoaded = (initPromise = 1)
  /\ callerPc = [c \in Callers |-> "idle"]
  /\ callerPromise = [c \in Callers |-> 0]
  /\ callerError = [c \in Callers |-> "none"]
  /\ callerPendingAtEntry = [c \in Callers |-> 0]
  /\ callerStarted = [c \in Callers |-> FALSE]

InitInit ==
  /\ now = 0
  /\ HookInitial
  /\ initPromise = 0
  /\ gapiInited = FALSE
  /\ gisInited = FALSE
  /\ tokenClient = FALSE
  /\ promises = [p \in PromiseIds |-> [state |-> "unused", error |-> "none"]]
  /\ nextPromise = 1
  /\ outerPc = [p \in PromiseIds |-> "none"]
  /\ cbPc = [p \in PromiseIds |-> "none"]
  /\ waitStart = [p \in PromiseIds |-> 0]
  /\ intervals = [p \in PromiseIds |-> NoIntervals]
  /\ gapiLoaded = FALSE
  /\ gisLoaded = FALSE
  /\ callerPc = [c \in Callers |-> "idle"]
  /\ callerPromise = [c \in Callers |-> 0]
  /\ callerError = [c \in Callers |-> "none"]
  /\ callerPendingAtEntry = [c \in Callers |-> 0]
  /\ callerStarted = [c \in Callers |-> FALSE]
  /\ AuthInitial

NextInit ==
  \/ \E c \in Callers : initializeGoogleApi(c)
  \/ \E p \in PromiseIds : PollGapi(p)
  \/ \E p \in PromiseIds : PollGis(p)
  \/ \E p \in PromiseIds : GapiLoadCallback(p)
  \/ \E c \in Callers : CallerObserves(c)
  \/ \E c \in Callers : CallerReturns(c)
  \/ ScriptLoads
  \/ TickInit

SpecInit == InitInit /\ [][NextInit]_vars

\* The same with the browser's event loop doing its work: time passes, a set
\* interval timer fires its callback (setInterval, line 34), and a caller awaiting
\* a settled promise is resumed.
FairInit ==
  /\ WF_vars(TickInit)
  /\ \A p \in PromiseIds : WF_vars(PollGapi(p)) /\ WF_vars(PollGis(p))
  /\ \A c \in Callers : WF_vars(CallerObserves(c))
SpecInitFair == SpecInit /\ FairInit

InitAuth ==
  /\ now = 0
  /\ HookInitial
  /\ InitializedOrNot
  /\ AuthInitial

NextAuth ==
  \/ \E t \in Tasks : signIn(t)
  \/ \E t \in Tasks : getAccessToken(t)
  \/ \E t \in Tasks : isAuthenticatedCall(t)
  \/ \E t \in Tasks : signOut(t)
  \/ \E k \in SignInIds, error \in ProviderErrorCodes : ProviderError(k, error)
  \/ \E k \in SignInIds, tok \in AccessTokens, e \in ExpiresInChoices : ProviderSuccess(k, tok, e)
  \/ \E t \in Tasks : TaskReturns(t)
  \/ PageReload
  \/ TickAuth

SpecAuth == InitAuth /\ [][NextAuth]_vars

\* A signed-in user's page: one signIn() has stored its session, and the page was
\* loaded since (initializeGoogleApi() has or has not completed).
InitSheet ==
  /\ now = 0
  /\ HookInitial
  /\ InitializedOrNot
  /\ lsAccessToken = "tokA"
  /\ lsExpiresAt = toString(ExpiresAt(toString(MaxExpiresIn)))
  /\ sessionExpiresAt = ExpiresAt(toString(MaxExpiresIn))
  /\ lsSheetId = NULL
  /\ gapiToken = NULL
  /\ tokenCallback = 0
  /\ signIns = [k \in SignInIds |-> IF k = 1 THEN "resolved" ELSE "unused"]
  /\ nextSignIn = 2
  /\ requested = {}
  /\ task = [t \in Tasks |-> IdleTask]
  /\ sheets = [n \in SheetIds |-> NoSheet]

NextSheet ==
  \/ \E t \in SheetCallers : initializeSheet(t)
  \/ \E t \in SheetCallers : RemoteSuccess(t)
  \/ \E t \in SheetCallers, e \in RemoteErrors : RemoteFailure(t, e)
  \/ \E t \in SheetCallers : CreateAnswersWithoutId(t)
  \/ \E n \in SheetIds : ExternalDelete(n)
  \/ \E t \in Tasks : signOut(t)
  \/ \E t \in Tasks : clearSheetId(t)
  \/ \E k \in SignInIds, error \in ProviderErrorCodes : ProviderError(k, error)
  \/ \E k \in SignInIds, tok \in AccessTokens, e \in ExpiresInChoices : ProviderSuccess(k, tok, e)
  \/ \E t \in Tasks : TaskReturns(t)
  \/ TickAuth

SpecSheet == InitSheet /\ [][NextSheet]_vars

\* The record store in use: reads and writes of both tabs by one caller, the remote
\* answering or failing, the session ending.
NextStore ==
  \/ \E t \in SheetCallers : initializeSheet(t)
  \/ \E t \in SheetCallers, op \in ReadOps : readRecords(t, op)
  \/ \E t \in SheetCallers, op \in WriteOps, random \in RandomParts :
       \E partial \in Partials(FieldsOf(op)) : writeRecord(t, op, partial, random)
  \/ \E t \in SheetCallers : RemoteSuccess(t)
  \/ \E t \in SheetCallers, e \in RemoteErrors : RemoteFailure(t, e)
  \/ \E t \in SheetCallers : signOut(t)
  \/ \E t \in SheetCallers : TaskReturns(t)

SpecStore == InitSheet /\ [][NextStore]_vars

\* The hook in use on a loaded page, signed in or not: loadData runs (mount and
\* reload) and add calls, the service settling their calls, the clock reaching the
\* expiry of the stored session.
InitHook == InitSheet \/ InitAuth

NextHook ==
  \/ \E r \in Loads : loadData(r)
  \/ \E r \in Loads, ok \in BOOLEAN : InitSettles(r, ok)
  \/ \E r \in Loads : SheetResolves(r)
  \/ \E r \in Loads, message \in SheetFailures : SheetRejects(r, message)
  \/ \E r \in Loads, value \in ReadResults : ReadResolves(r, "farmacias", value)
  \/ \E r \in Loads, value \in ReadResults : ReadResolves(r, "medicos", value)
  \/ \E r \in Loads, message \in ReadFailures("readFarmacias") : ReadRejects(r, "farmacias", message)
  \/ \E r \in Loads, message \in ReadFailures("readMedicos") : ReadRejects(r, "medicos", message)
  \/ \E r \in Loads : LoadReturns(r)
  \/ \E a \in Adds, op \in {"addFarmacia", "addMedico"}, item \in Items : addEntity(a, op, item)
  \/ \E a \in Adds : WriteResolves(a)
  \/ \E a \in Adds, cause \in {"Network down", "Not authenticated"} : WriteRejects(a, cause)
  \/ \E a \in Adds : AddReturns(a)
  \/ TickAuth

SpecHook == InitHook /\ [][NextHook]_vars

\* Two callers use the record store at once, the remote answering every call.
NextWriters ==
  \/ \E t \in Tasks : initializeSheet(t)
  \/ \E t \in Tasks : readRecords(t, "readFarmacias")
  \/ \E t \in Tasks, op \in WriteOps :
       \E partial \in Partials(FieldsOf(op)) : writeRecord(t, op, partial, "k2j5x9q")
  \/ \E t \in Tasks : RemoteSuccess(t)
  \/ \E t \in Tasks : TaskReturns(t)

SpecWriters == InitSheet /\ [][NextWriters]_vars

\* A catch block of googleSheetsService.ts normalizes the failure value it got.
extractErrorMessageCall(t, error) ==
  /\ task[t].pc = "idle"
  /\ task' = [task EXCEPT ![t] =
       [IdleTask EXCEPT !.op = "extractErrorMessage", !.pc = "done", !.remoteErr = error,
                        !.error = extractErrorMessage(error)]]
  /\ UNCHANGED <<sheets, now, initVars, hookVars, lsAccessToken, lsExpiresAt, lsSheetId, gapiToken,
                 tokenCallback, signIns, nextSignIn, requested, sessionExpiresAt>>

NextNormalize ==
  \/ \E t \in SheetCallers, error \in ErrorValues : extractErrorMessageCall(t, error)
  \/ \E t \in SheetCallers : TaskReturns(t)

SpecNormalize == InitAuth /\ [][NextNormalize]_vars

\* ------------------------------------------------------------------ claims

\* C1: calls of initializeGoogleApi() made while an earlier call's promise is
\* still pending start no second bootstrap and get that same promise; at most
\* one promise is ever pending; callers of one promise observe one outcome
\* (all resolve, or all reject with the same error).
C1_OneBootstrapSharedOutcome ==
  /\ Cardinality(PendingPromises) <= 1
  /\ \A c \in Callers :
       (callerPc[c] # "idle" /\ callerPendingAtEntry[c] # 0) =>
          (~callerStarted[c] /\ callerPromise[c] = callerPendingAtEntry[c])
  /\ \A c, d \in Callers :
       (/\ callerPromise[c] # 0
        /\ callerPromise[c] = callerPromise[d]
        /\ callerPc[c] \in {"resolved", "rejected"}
        /\ callerPc[d] \in {"resolved", "rejected"}) =>
          (callerPc[c] = callerPc[d] /\ callerError[c] = callerError[d])

\* Two callers entered concurrently, share a promise, and both observed its rejection.
C1_Witness ==
  /\ callerPendingAtEntry[2] # 0
  /\ callerPromise[1] = callerPromise[2]
  /\ callerPc[1] = "rejected"
  /\ callerPc[2] = "rejected"
  /\ callerStarted[1]

\* C2 (as claimed): once a bootstrap has failed and all its steps have run,
\* the stored promise is no longer the rejected one, so a later call retries.
C2_FailureClearsStoredPromise ==
  \A p \in PromiseIds :
    (/\ promises[p].state = "rejected"
     /\ outerPc[p] \in {"done", "failed"}
     /\ cbPc[p] \in {"none", "done", "failed"}) => initPromise # p

\* C7: isAuthenticated() returns true exactly when a session is persisted and
\* now < expiresAt (the number stored at sign-in); false when nothing is persisted.
C7_IsAuthenticatedIffUnexpired ==
  \A t \in Tasks :
    (task[t].op = "isAuthenticated" /\ task[t].pc = "done") =>
       (task[t].result = "true" <=>
          (/\ task[t].entry.token # NULL
           /\ task[t].entry.expiresAt # -1
           /\ task[t].entry.at < task[t].entry.expiresAt))

\* One call at expiresAt - 1 returned true and one at expiresAt returned false.
C7_Witness ==
  \E t, u \in Tasks :
    /\ task[t].op = "isAuthenticated" /\ task[t].pc = "done" /\ task[t].result = "true"
    /\ task[t].entry.at = task[t].entry.expiresAt - 1
    /\ task[u].op = "isAuthenticated" /\ task[u].pc = "done" /\ task[u].result = "false"
    /\ task[u].entry.at = task[u].entry.expiresAt
    /\ task[u].entry.token # NULL

\* C8: getAccessToken() with a persisted session, after initialization: called
\* before the expiry it returns the stored token and neither runs signIn() nor
\* requests a token; called at or after the expiry it runs signIn() with an
\* interactive request before returning, and returns the token the response
\* stored, or null when the response was an error.
C8_GetAccessTokenRefreshesOnExpiry ==
  \A t \in Tasks :
    (/\ task[t].op = "getAccessToken" /\ task[t].pc = "done"
     /\ task[t].initialized
     /\ task[t].entry.token # NULL) =>
       /\ (task[t].entry.at < task[t].entry.expiresAt) =>
             (/\ task[t].result = task[t].entry.token
              /\ ~task[t].ranSignIn
              /\ ~task[t].requested)
       /\ (task[t].entry.at >= task[t].entry.expiresAt) =>
             (/\ task[t].ranSignIn
              /\ task[t].requested
              /\ \/ /\ task[t].resp.kind = "ok"
                    /\ task[t].result = task[t].resp.token
                    /\ task[t].result = task[t].after.token
                 \/ /\ task[t].resp.kind = "error"
                    /\ task[t].result = NULL)

\* One call at expiresAt - 1 returned the stored token; a call at expiresAt + 1
\* returned the other token, newly stored by its sign-in.
C8_Witness ==
  \E t, u \in Tasks :
    /\ task[t].op = "getAccessToken" /\ task[t].pc = "done"
    /\ task[t].entry.at = task[t].entry.expiresAt - 1
    /\ task[t].result = task[t].entry.token
    /\ task[u].op = "getAccessToken" /\ task[u].pc = "done"
    /\ task[u].entry.at = task[u].entry.expiresAt + 1
    /\ task[u].entry.token # NULL
    /\ task[u].resp.kind = "ok"
    /\ task[u].result # task[u].entry.token

\* C9: signIn() called after initialization with a valid persisted session
\* resolves without requestAccessToken, attaches the stored token to the gapi
\* client, and leaves the persisted token and expiry as they were.
C9_SignInReusesValidSession ==
  \A t \in Tasks :
    (/\ task[t].op = "signIn" /\ task[t].pc # "idle"
     /\ task[t].initialized
     /\ task[t].entry.token # NULL
     /\ task[t].entry.at < task[t].entry.expiresAt) =>
       /\ task[t].pc = "done"
       /\ task[t].result = "resolved"
       /\ ~task[t].requested
       /\ task[t].after.gapi = task[t].entry.token
       /\ task[t].after.token = task[t].entry.token
       /\ task[t].after.expiresAt = task[t].entry.expiresAt

\* A signIn() found a valid session while no token was attached, and attached it.
C9_Witness ==
  \E t \in Tasks :
    /\ task[t].op = "signIn" /\ task[t].pc = "done" /\ task[t].result = "resolved"
    /\ task[t].entry.token # NULL
    /\ task[t].entry.at < task[t].entry.expiresAt
    /\ task[t].entry.gapi = NULL
    /\ task[t].after.gapi = task[t].entry.token

\* C10: when signIn()'s token request is answered with (access_token, expires_in),
\* signIn() resolves with the persisted token equal to access_token, the persisted
\* expiry equal to the response time + expires_in * 1000, and access_token attached
\* to the gapi client; for expires_in > 0 isAuthenticated() is then true.
C10_SignInStoresSession ==
  \A t \in Tasks :
    (task[t].op = "signIn" /\ task[t].pc = "done" /\ task[t].resp.kind = "ok") =>
       /\ task[t].result = "resolved"
       /\ task[t].after.token = task[t].resp.token
       /\ task[t].after.expiresAt = task[t].resp.at + task[t].resp.expiresIn * 1000
       /\ task[t].after.gapi = task[t].resp.token
       /\ (task[t].resp.expiresIn > 0) => task[t].authedAfter

\* A request answered at a later instant with expires_in = 1 replaced the token.
C10_Witness ==
  \E t \in Tasks :
    /\ task[t].op = "signIn" /\ task[t].pc = "done" /\ task[t].resp.kind = "ok"
    /\ task[t].resp.at > 0
    /\ task[t].resp.expiresIn = 1
    /\ task[t].entry.token # NULL
    /\ task[t].after.token # task[t].entry.token
    /\ task[t].authedAfter

\* ---- initializeSheet
SheetTasks == {t \in Tasks : task[t].op = "initializeSheet"}
Last(tr) == tr[Len(tr)]
Settled(t) == task[t].pc = "done"
Rejected(t) == Settled(t) /\ task[t].result = "rejected"
Resolved(t) == Settled(t) /\ task[t].result # "rejected"

SearchOnlyWithoutUsableCache(t) ==
  LET tr == task[t].trace IN
  /\ task[t].cachedAtEntry # NULL => tr[1] = "verify"
  /\ \A i \in 1..Len(tr) :
       /\ tr[i] = "verify" => i = 1 /\ task[t].cachedAtEntry # NULL
       /\ tr[i] = "search" => \/ i = 1 /\ task[t].cachedAtEntry = NULL
                              \/ i > 1 /\ tr[i - 1] = "verify:fail"
VerifyFailureNeverSurfaced(t) ==
  LET tr == task[t].trace IN
  /\ \A i \in 1..Len(tr) : tr[i] = "verify:fail" => i < Len(tr) /\ tr[i + 1] = "search"
  /\ Rejected(t) => Last(tr) \notin {"verify:fail"}
  /\ Rejected(t) =>
       task[t].error \notin {ThrownByRemote("verify", id, e).message :
                               id \in {SheetNames[n] : n \in SheetIds}, e \in RemoteErrors}

\* C3 as stated: the tiers of initializeSheet() run in strict order: search is
\* entered only when there is no cached handle or its verification failed, create
\* only right after a search that returned no match, and a failed verification is
\* never surfaced and always followed by search.
C3_CreateOnlyAfterNoMatch ==
  \A t \in SheetTasks :
    /\ SearchOnlyWithoutUsableCache(t)
    /\ VerifyFailureNeverSurfaced(t)
    /\ \A i \in 1..Len(task[t].trace) :
         task[t].trace[i] = "create" => i > 1 /\ task[t].trace[i - 1] = "search:nomatch"

\* C3 amended: the tiers run in the order verify, search, create: search is entered
\* only when there is no cached handle or its verification failed, a failed
\* verification is never surfaced and always followed by search, and create is
\* entered only right after a search that returned no match or that failed.
C3_TiersInOrder ==
  \A t \in SheetTasks :
    /\ SearchOnlyWithoutUsableCache(t)
    /\ VerifyFailureNeverSurfaced(t)
    /\ \A i \in 1..Len(task[t].trace) :
         task[t].trace[i] = "create" =>
           i > 1 /\ task[t].trace[i - 1] \in {"search:nomatch", "search:fail"}

C3_Witness ==
  \E t \in SheetTasks :
    /\ Settled(t)
    /\ Has(task[t].trace, "verify:fail")
    /\ Has(task[t].trace, "search:fail")
    /\ Has(task[t].trace, "create:ok")

SearchMessages == {ThrownByRemote("search", NULL, e).message : e \in RemoteErrors}

\* C4 as stated: a failed remote search is fatal: initializeSheet() rejects with
\* the normalized search message and no resource is created.
C4_SearchFailureIsFatal ==
  \A t \in SheetTasks :
    Has(task[t].trace, "search:fail") =>
      /\ task[t].calls.create = 0
      /\ Settled(t) => Rejected(t) /\ task[t].error \in SearchMessages

\* C4 amended: a failed remote search is not surfaced: initializeSheet() goes on
\* to the create tier, is rejected only when that tier fails (never with the search
\* message), and otherwise stores and returns the id of the resource it created.
C4_SearchFailureFallsThroughToCreate ==
  \A t \in SheetTasks :
    LET tr == task[t].trace IN
    /\ \A i \in 1..Len(tr) : tr[i] = "search:fail" => i < Len(tr) /\ tr[i + 1] = "create"
    /\ Has(tr, "search:fail") /\ Rejected(t) =>
         /\ Last(tr) \in {"create:fail", "headers:fail"}
         /\ task[t].error \notin SearchMessages
    /\ Has(tr, "search:fail") /\ Resolved(t) =>
         /\ Last(tr) = "headers:ok"
         /\ task[t].calls.create = 1
         /\ task[t].result = task[t].persisted

C4_Witness ==
  \E t \in SheetTasks :
    /\ Resolved(t)
    /\ Has(task[t].trace, "search:fail")
    /\ task[t].remoteErr = NoError
    /\ task[t].persisted # NULL
    /\ sheets[SheetIndex(task[t].persisted)].state = "live"

OneHeaderRowPerTab(req, id) ==
  /\ req.spreadsheetId = id
  /\ Len(req.data) = 2
  /\ {req.data[i].tab : i \in 1..2} = {FARMACIAS_TAB, MEDICOS_TAB}
  /\ \A i \in 1..2 :
       /\ req.data[i].cell = "A1"
       /\ Len(req.data[i].values) = 1
       /\ req.data[i].values[1] = IF req.data[i].tab = FARMACIAS_TAB THEN FARMACIAS_HEADERS
                                  ELSE MEDICOS_HEADERS

\* C5: with no cached handle and no search match, initializeSheet() calls create
\* exactly once with the fixed title and exactly the two tabs, writes exactly one
\* header row to each tab, stores and returns the new id; a call that finds an id
\* stored verifies that id and returns it without searching or creating.
C5_CreateOnceThenVerifyOnly ==
  \A t \in SheetTasks :
    LET tk == task[t] IN
    /\ tk.cachedAtEntry = NULL /\ Has(tk.trace, "search:nomatch") =>
         /\ tk.calls.create <= 1
         /\ \A i \in 1..Len(tk.createReq) :
              tk.createReq[i] = [title |-> "representante_medico__app",
                                 tabs |-> <<"farmacias", "medicos">>]
         /\ Resolved(t) =>
              /\ tk.trace = <<"search", "search:nomatch", "create", "create:ok",
                              "headers", "headers:ok">>
              /\ tk.calls = [verify |-> 0, search |-> 1, create |-> 1, headers |-> 1]
              /\ Len(tk.headersReq) = 1
              /\ OneHeaderRowPerTab(tk.headersReq[1], tk.result)
              /\ tk.result \in {SheetNames[n] : n \in SheetIds}
              /\ tk.persisted = tk.result
              /\ tk.cachedAfter = tk.result
    /\ tk.cachedAtEntry # NULL /\ Has(tk.trace, "verify:ok") =>
         /\ tk.trace = <<"verify", "verify:ok">>
         /\ tk.calls = [verify |-> 1, search |-> 0, create |-> 0, headers |-> 0]
         /\ Resolved(t)
         /\ tk.result = tk.cachedAtEntry
         /\ tk.persisted = NULL

C5_Witness ==
  \E t \in SheetTasks :
    /\ Resolved(t)
    /\ task[t].trace = <<"verify", "verify:ok">>
    /\ sheets[SheetIndex(task[t].result)].title = SHEET_TITLE
    /\ sheets[SheetIndex(task[t].result)].grid =
         [tab \in {FARMACIAS_TAB, MEDICOS_TAB} |->
            IF tab = FARMACIAS_TAB THEN <<FARMACIAS_HEADERS>> ELSE <<MEDICOS_HEADERS>>]

NormalizedRemoteMessage(e) ==
  IF e.envelope # Absent THEN e.envelope
  ELSE IF e.message # Absent THEN e.message
  ELSE e.statusText

\* C6: when the create call or the header write is rejected by the remote,
\* initializeSheet() rejects with the normalized remote message, and the stored
\* sheet id is what it was when the call began.
C6_CreateFailureKeepsCache ==
  \A t \in SheetTasks :
    LET tk == task[t] IN
    Settled(t) /\ Last(tk.trace) \in {"create:fail", "headers:fail"} /\ tk.remoteErr # NoError =>
      /\ Rejected(t)
      /\ tk.error = IF Last(tk.trace) = "create:fail"
                    THEN "Failed to create sheet: " \o NormalizedRemoteMessage(tk.remoteErr)
                    ELSE "Failed to create sheet: Failed to write headers: "
                         \o NormalizedRemoteMessage(tk.remoteErr)
      /\ tk.persisted = NULL
      /\ ~tk.othersWrote => tk.cachedAfter = tk.cachedAtEntry

C6_Witness ==
  \E t \in SheetTasks :
    /\ Rejected(t)
    /\ Last(task[t].trace) = "headers:fail"
    /\ task[t].remoteErr.envelope # Absent
    /\ task[t].cachedAtEntry # NULL
    /\ ~task[t].othersWrote
    /\ lsSheetId = task[t].cachedAtEntry

\* ---- signIn, signOut, isAuthenticated
\* C11: when the provider answers the token request with an error, the signIn()
\* whose callback receives it rejects with that error, and the stored token, the
\* stored expiry and the token attached to the gapi client are left as they were.
C11_ProviderErrorRejectsAndKeepsSession ==
  [][\A k \in SignInIds, error \in ProviderErrorCodes :
       ProviderError(k, error) =>
         /\ lsAccessToken' = lsAccessToken
         /\ lsExpiresAt' = lsExpiresAt
         /\ gapiToken' = gapiToken
         /\ \A t \in Awaiting(tokenCallback) :
              task[t].op = "signIn" =>
                /\ task'[t].pc = "done"
                /\ task'[t].result = "rejected"
                /\ task'[t].error = error]_vars

C11_Witness ==
  \E t \in Tasks :
    /\ task[t].op = "signIn" /\ task[t].pc = "done"
    /\ task[t].resp.kind = "error"
    /\ task[t].result = "rejected"
    /\ task[t].error = "popup_closed"
    /\ task[t].entry.token # NULL
    /\ lsAccessToken = task[t].entry.token
    /\ gapiToken # NULL

\* C12: after a signOut() that resolves, the stored token, the stored expiry and the
\* stored sheet id are absent and no token is attached to the gapi client, whether
\* or not one was attached before; isAuthenticated() is false and the next
\* initializeSheet() starts with the search, not with a cached id.
C12_SignOutClearsSessionAndHandle ==
  [][\A t \in Tasks :
       signOut(t) /\ task'[t].result = "resolved" =>
         /\ lsAccessToken' = NULL
         /\ lsExpiresAt' = NoDigits
         /\ lsSheetId' = NULL
         /\ gapiToken' = NULL
         /\ ~isAuthenticated'
         /\ FirstTier' = "search"]_vars

C12_Witness ==
  \E t \in Tasks :
    /\ task[t].op = "signOut" /\ task[t].pc = "done" /\ task[t].result = "resolved"
    /\ task[t].entry.gapi # NULL
    /\ \E n \in SheetIds : sheets[n].state = "live"
    /\ lsAccessToken = NULL
    /\ lsSheetId = NULL

\* C13: a signOut() called once initializeGoogleApi() has completed rejects exactly
\* when revoke() threw; with no token attached it always resolves, and it never
\* waits for the revocation callback.
C13_SignOutRejectsOnlyWhenRevokeThrows ==
  \A t \in Tasks :
    (task[t].op = "signOut" /\ task[t].initialized) =>
      /\ task[t].pc = "done"
      /\ task[t].result \in {"resolved", "rejected"}
      /\ task[t].result = "rejected" => task[t].error = "revoke threw" /\ task[t].entry.gapi # NULL
      /\ task[t].entry.gapi = NULL => task[t].result = "resolved"

C13_Witness ==
  \E t, u \in Tasks :
    /\ task[t].op = "signOut" /\ task[t].initialized /\ task[t].result = "rejected"
    /\ task[u].op = "signOut" /\ task[u].initialized /\ task[u].result = "resolved"

\* C14: isAuthenticated() only reads: it requests no token, issues no remote call,
\* and leaves the stored session, the stored sheet id and the attached token alone.
C14_IsAuthenticatedIsPure ==
  [][\A t \in Tasks :
       isAuthenticatedCall(t) =>
         UNCHANGED <<lsAccessToken, lsExpiresAt, lsSheetId, gapiToken, requested,
                     tokenCallback, signIns, nextSignIn, sheets>>]_vars

C14_Witness ==
  \E t \in Tasks :
    /\ task[t].op = "isAuthenticated" /\ task[t].pc = "done" /\ task[t].result = "true"
    /\ gapiToken = NULL
    /\ lsAccessToken # NULL
    /\ requested = {}

\* ---- extractErrorMessage
Normalized == {t \in Tasks : task[t].op = "extractErrorMessage" /\ task[t].pc = "done"}

\* C18 as stated: extractErrorMessage never throws and always returns a non-empty
\* string, whatever the failure value: a non-object, null, an object without any
\* known field, an object whose known fields are malformed.
C18_NormalizerTotalAndNonEmpty ==
  \A t \in Normalized :
    /\ task[t].error # TypeErrorThrown
    /\ task[t].error # NotAString
    /\ task[t].error # ""

WellFormed(e) ==
  /\ e.isObject
  /\ e.envelope \notin {NullEnvelope, NotAString, ""}
  /\ e.message # NotAString
  /\ e.statusText # NotAString

NotAuthenticatedMessage(op) ==
  IF op \in RecordOps THEN FailurePrefix(op) \o "Not authenticated" ELSE "Not authenticated"
C15_NoSessionRejectsWithoutRemoteCall ==
  \A t \in Tasks :
    (task[t].op \in SheetOps /\ task[t].pc # "idle" /\ ~task[t].hadSession)
      => /\ task[t].pc = "done"
         /\ task[t].result = "rejected"
         /\ task[t].error = NotAuthenticatedMessage(task[t].op)
         /\ task[t].calls = NoCalls
         /\ task[t].dataReq = NoRequest
         /\ ~task[t].requested
C15_Witness ==
  \E t \in Tasks :
       /\ task[t].op = "writeMedico"
       /\ ~task[t].hadSession
       /\ task[t].result = "rejected"
       /\ task[t].trace = <<"search", "search:fail", "create", "create:fail">>
       /\ \E n \in SheetIds : sheets[n].state = "live"

\* C17: a read that resolves returns exactly one entity per data row of the tab (the
\* rows below the first one, which the remote range read returns), in the remote's
\* row order; when the tab holds no data row it resolves with the empty sequence.
ReadTasks == {t \in Tasks : task[t].op \in ReadOps /\ task[t].pc = "done" /\ task[t].result = "resolved"}
C17_OneEntityPerRowInOrder ==
  \A t \in ReadTasks :
    /\ Len(task[t].rows) = IF task[t].tabRows > 1 THEN task[t].tabRows - 1 ELSE 0
    /\ Len(task[t].entities) = Len(task[t].rows)
    /\ \A i \in 1..Len(task[t].rows) :
         task[t].entities[i].id = IF task[t].rows[i] = << >> THEN Str("") ELSE Str(task[t].rows[i][1])
    /\ task[t].tabRows <= 1 => task[t].entities = << >>
C17_Witness ==
  \E t \in ReadTasks :
    /\ Len(task[t].entities) = 2
    /\ task[t].entities[1].id # task[t].entities[2].id
    /\ task[t].tabRows = 3

\* C16: once writeFarmacia(partial) / writeMedico(partial) has resolved with an entity
\* e, a read of the same tab (nobody else writing the tab in between) returns a
\* sequence holding an entity whose every field equals e's, and e.id and e.createdAt
\* are not empty.
WriteTasks == {t \in Tasks : task[t].op \in WriteOps /\ task[t].pc = "done" /\ task[t].result = "resolved"}
C16_WriteThenReadRoundTrip ==
  /\ \A t \in WriteTasks :
       task[t].entity.id # Str("") /\ task[t].entity.createdAt # Str("")
  /\ \A t \in ReadTasks :
       \A i \in 1..Len(task[t].written) :
         \E j \in 1..Len(task[t].entities) : task[t].entities[j] = task[t].written[i]

\* C20: a caller's second consecutive initializeSheet(), made with a session stored,
\* the first call's handle still the stored one, and the remote answering as it did
\* (the spreadsheet still there, no call failing), returns the handle the first call
\* returned after the one verification call, without a search or a create, and does
\* not write the stored handle.
SecondCalls ==
  {t \in SheetTasks : Settled(t) /\ task[t].prev # NULL /\ task[t].hadSession
                      /\ task[t].cachedAtEntry = task[t].prev
                      /\ \A i \in 1..Len(task[t].trace) :
                           task[t].trace[i] \notin {"verify:fail", "search:fail", "create:fail",
                                                    "headers:fail"}}
C20_SecondCallReturnsSameHandle ==
  \A t \in SecondCalls :
    /\ task[t].result = task[t].prev
    /\ task[t].trace = <<"verify", "verify:ok">>
    /\ task[t].calls = [verify |-> 1, search |-> 0, create |-> 0, headers |-> 0]
    /\ task[t].persisted = NULL
    /\ ~task[t].othersWrote => task[t].cachedAfter = task[t].prev
C20_Witness ==
  \E t \in SecondCalls :
    /\ task[t].result = task[t].prev
    /\ task[t].calls.verify = 1
    /\ lsSheetId = task[t].prev
    /\ Cardinality({n \in SheetIds : sheets[n].state = "live"}) = 2

\* C21: an initializeSheet() that found a handle stored starts with the existence
\* check of that handle, returns it from the verification tier only after exactly
\* one such call was answered, whatever an earlier call verified, and the handle a
\* call returns names a spreadsheet that exists on the remote at that moment: a
\* handle deleted out-of-band is never returned.
ReturnsHandle(t) ==
  /\ task[t].pc # "done"
  /\ task'[t].pc = "done"
  /\ task'[t].op = "initializeSheet"
  /\ task'[t].result # "rejected"
C21_CachedHandleVerifiedOnEachCall ==
  [][\A t \in Tasks :
       ReturnsHandle(t) =>
         /\ sheets'[SheetIndex(task'[t].result)].state = "live"
         /\ task'[t].cachedAtEntry # NULL => task'[t].trace[1] = "verify"
         /\ Last(task'[t].trace) = "verify:ok" =>
              /\ task'[t].result = task'[t].cachedAtEntry
              /\ task'[t].calls.verify = 1]_vars
C21_Witness ==
  \E t \in SheetTasks :
    /\ Resolved(t)
    /\ task[t].prev # NULL
    /\ task[t].cachedAtEntry = task[t].prev
    /\ sheets[SheetIndex(task[t].prev)].state = "trashed"
    /\ task[t].calls.verify = 1
    /\ task[t].result # task[t].prev

\* C22: when the search answers with one or more matches, initializeSheet() stores
\* the id of the first match as the cached handle, returns that id, and makes no
\* create call (and no header write).
C22_FirstMatchStoredAndReturned ==
  \A t \in SheetTasks :
    (Settled(t) /\ task[t].files # << >>)
      => /\ task[t].result = task[t].files[1]
         /\ task[t].persisted = task[t].files[1]
         /\ Last(task[t].trace) = "search:match"
         /\ task[t].calls.create = 0
         /\ task[t].calls.headers = 0
         /\ ~task[t].othersWrote => task[t].cachedAfter = task[t].files[1]
C22_Witness ==
  \E t \in SheetTasks :
    /\ Settled(t)
    /\ Len(task[t].files) = 2
    /\ task[t].result = task[t].files[1]
    /\ lsSheetId = task[t].files[1]
    /\ task[t].cachedAtEntry # task[t].files[1]

\* C23: loadData joins its two reads. The status becomes 'success' only in the step
\* in which the second of the two reads resolves, the lists then being the two
\* results; when one of them rejects the status becomes 'error' with that message
\* and both lists stay as they were, and a read that resolves after its partner
\* rejected changes nothing in the state.
ReadSettled(r, which, st) == load[r][which].st = "pending" /\ load'[r][which].st = st
C23_ReadsJoinedAllOrNothing ==
  [][\A r \in Loads :
       /\ (state'.status = "success" /\ state.status # "success")
            => \E q \in Loads : load[q].pc = "awaitReads" /\ load'[q].joined = "resolved"
       /\ (load[r].pc = "awaitReads" /\ load'[r].joined = "resolved")
            => /\ load'[r].farmacias.st = "resolved" /\ load'[r].medicos.st = "resolved"
               /\ state'.status = "success"
               /\ state'.farmacias = load'[r].farmacias.value
               /\ state'.medicos = load'[r].medicos.value
       /\ \A which \in {"farmacias", "medicos"} :
            /\ (load[r].pc = "awaitReads" /\ ReadSettled(r, which, "rejected"))
                 => /\ state'.status = "error"
                    /\ state'.error = load'[r][which].error
                    /\ state'.farmacias = state.farmacias
                    /\ state'.medicos = state.medicos
            /\ (load[r].joined = "rejected" /\ ReadSettled(r, which, "resolved"))
                 => state' = state
            /\ (load[r].pc = "awaitReads" /\ ReadSettled(r, which, "resolved")
                  /\ load[r][Other(which)].st = "pending")
                 => state' = state]_vars
C23_Witness ==
  \E r \in Loads :
    /\ load[r].joined = "rejected"
    /\ load[r].farmacias.st = "resolved"
    /\ load[r].farmacias.value # << >>
    /\ load[r].medicos.st = "rejected"
    /\ state.status = "error"
    /\ state.error = load[r].medicos.error
    /\ state.farmacias = <<"e1">>

\* C26: addFarmacia and addMedico update the hook's list optimistically: in the step
\* in which the call is made, before its write has completed, the list of the state
\* already holds the new item at its end.
C26_AddUpdatesListBeforeWrite ==
  [][\A a \in Adds :
       (add[a].pc = "idle" /\ add'[a].pc = "awaitWrite")
         => state'[ListOf(add'[a].op)] = Append(state[ListOf(add'[a].op)], add'[a].arg)]_vars

\* C24: clearSheetId() removes the stored sheet id and nothing else: the stored token
\* and expiry, the attached token and the value of isAuthenticated() are as before,
\* and an initializeSheet() called next starts with the search, without a
\* verification. Conversely, the clock passing the expiry and a new token being
\* stored never change the stored sheet id.
C24_ClearSheetIdOnlyForgetsHandle ==
  [][/\ \A t \in Tasks :
          clearSheetId(t) =>
            /\ lsSheetId' = NULL
            /\ lsAccessToken' = lsAccessToken
            /\ lsExpiresAt' = lsExpiresAt
            /\ gapiToken' = gapiToken
            /\ isAuthenticated' = isAuthenticated
            /\ FirstTier' = "search"
     /\ (now' # now \/ (lsAccessToken' # NULL /\ <<lsAccessToken', lsExpiresAt'>> # <<lsAccessToken, lsExpiresAt>>))
          => lsSheetId' = lsSheetId]_vars
C24_Witness ==
  \E t \in Tasks :
    /\ task[t].op = "clearSheetId"
    /\ lsSheetId = NULL
    /\ isAuthenticated
    /\ lsAccessToken = "tokB"
    /\ \E n \in SheetIds : sheets[n].state = "live"

\* C25: the rows of a tab of an existing spreadsheet change only by one row being
\* added below the last one, in the step in which a writeFarmacia / writeMedico
\* resolves, that row being the row of the entity it returns; the header row is
\* written into a tab that holds no row; no step changes or removes a row, and reads
\* and initializeSheet() leave every row as it is.
RowsKept(old, new) == Len(new) >= Len(old) /\ SubSeq(new, 1, Len(old)) = old
WriteResolved(t) ==
  /\ task[t].pc # "done"
  /\ task'[t].pc = "done"
  /\ task'[t].op \in WriteOps
  /\ task'[t].result = "resolved"
C25_RowsOnlyAppendedByWrites ==
  [][\A n \in SheetIds : \A tab \in DOMAIN sheets[n].grid :
       LET old == sheets[n].grid[tab]
           new == sheets'[n].grid[tab]
       IN \/ new = old
          \/ /\ old = << >>
             /\ new \in {<<FARMACIAS_HEADERS>>, <<MEDICOS_HEADERS>>}
             /\ \A t \in Tasks : ~WriteResolved(t)
          \/ /\ Len(new) = Len(old) + 1
             /\ RowsKept(old, new)
             /\ \E t \in Tasks :
                  /\ WriteResolved(t)
                  /\ TabOf(task'[t].op) = tab
                  /\ new[Len(new)] = [i \in 1..Len(task'[t].dataReq.row) |->
                                      FormattedValue(task'[t].dataReq.row[i])]
               ]_vars

\* C27: a promise of initializeGoogleApi() is fulfilled only when the gapi client
\* (client.init, then the sheets and the drive client, in some callback) and the
\* token client have both been initialized; and a call made once both are
\* initialized starts no bootstrap and does not get a rejected promise.
TransportInitialized == gapiInited /\ \E p \in PromiseIds : cbPc[p] = "done"
IdentityInitialized == gisInited /\ tokenClient
C27_ResolvesOnlyWhenBothInitialized ==
  [][/\ \A p \in PromiseIds :
          promises'[p].state = "fulfilled" => TransportInitialized' /\ IdentityInitialized'
     /\ \A c \in Callers :
          (initializeGoogleApi(c) /\ gapiInited /\ gisInited) =>
            /\ ~callerStarted'[c]
            /\ nextPromise' = nextPromise
            /\ \/ callerPc'[c] = "resolved"
               \/ promises'[callerPromise'[c]].state # "rejected"]_vars

\* C28: a bootstrap waiting for the gapi global ends rejected with the gapi timeout
\* error unless the global appears, and its caller observes that error; a bootstrap
\* waiting for Google Identity Services ends rejected unless that global appears,
\* with the timeout error when the gapi.load callback has not failed before; each
\* waitForGlobal calls resolve or reject once and its timer is cleared from then on.
TimeoutError(name) == "Timeout waiting for " \o name \o " to load"
RejectedWith(p, e) == promises[p].state = "rejected" /\ promises[p].error = e
WaitSettlesOnce ==
  \A p \in PromiseIds :
    /\ intervals[p].gapi.settled <= 1
    /\ intervals[p].gis.settled <= 1
    /\ intervals[p].gapi.active = (outerPc[p] = "waitGapi")
    /\ intervals[p].gis.active = (outerPc[p] = "waitGis")
    /\ intervals[p].gapi.active => intervals[p].gapi.settled = 0
    /\ intervals[p].gis.active => intervals[p].gis.settled = 0
C28_MissingGlobalEndsInTimeout ==
  /\ []WaitSettlesOnce
  /\ \A p \in PromiseIds :
       /\ (outerPc[p] = "waitGapi") ~> (gapiLoaded \/ RejectedWith(p, TimeoutError("gapi")))
       /\ (outerPc[p] = "waitGis") ~>
            \/ gisLoaded
            \/ RejectedWith(p, TimeoutError("Google Identity Services"))
            \/ promises[p].state = "rejected" /\ cbPc[p] = "failed"
  /\ \A c \in Callers :
       (callerPc[c] = "awaiting" /\ outerPc[callerPromise[c]] = "waitGapi") ~>
          (gapiLoaded \/ (callerPc[c] = "rejected" /\ callerError[c] = TimeoutError("gapi")))
C28_Witness ==
  \E p \in PromiseIds, c \in Callers :
    /\ ~gisLoaded
    /\ RejectedWith(p, TimeoutError("Google Identity Services"))
    /\ intervals[p].gis = [active |-> FALSE, settled |-> 1]
    /\ callerPc[c] = "rejected"
    /\ callerError[c] = TimeoutError("Google Identity Services")
\* C28 as stated: the bootstrap always ends with the timeout error.
C28_AlwaysTheTimeoutError ==
  \A p \in PromiseIds :
    (outerPc[p] = "waitGis") ~>
       (gisLoaded \/ RejectedWith(p, TimeoutError("Google Identity Services")))

\* C29: when the remote rejects the values.get of a read or the values.append of a
\* write, the operation rejects in that step with its own prefix followed by the
\* remote's message (result.error.message, else message, else statusText), that
\* request was issued once, the spreadsheets are left as they were and nothing is
\* returned; and a write issues no values.get: its only request to the tab is one
\* append.
DataFailed(tk) ==
  /\ tk.op \in RecordOps
  /\ Has(tk.trace, "data:fail")
  /\ tk.remoteErr # NoError
C29_RemoteFailureSurfacesOnce ==
  [][\A t \in Tasks :
       /\ (DataFailed(task'[t]) /\ ~DataFailed(task[t])) =>
            /\ task'[t].pc = "done"
            /\ task'[t].result = "rejected"
            /\ task'[t].error =
                 FailurePrefix(task[t].op) \o NormalizedRemoteMessage(task'[t].remoteErr)
            /\ task'[t].dataCalls = 1
            /\ task'[t].entities = << >>
            /\ sheets' = sheets
       /\ (task'[t].op \in WriteOps /\ task'[t].dataReq # NoRequest) =>
            /\ task'[t].dataReq.kind = "append"
            /\ task'[t].dataCalls = 1
            /\ task'[t].rows = << >>]_vars
C29_Witness ==
  \E t \in Tasks :
    /\ DataFailed(task[t])
    /\ task[t].op = "writeFarmacia"
    /\ task[t].pc = "done"
    /\ task[t].remoteErr.envelope = "The caller does not have permission"
    /\ task[t].error = "Failed to write farmacia: The caller does not have permission"
    /\ \E n \in SheetIds : sheets[n].state = "live" /\ sheets[n].grid[FARMACIAS_TAB] = <<FARMACIAS_HEADERS>>

\* C30: the row a write appends has one cell per header of its tab (25 for
\* farmacias, 16 for medicos); cell i is the value of the field that header i
\* names, and the empty string when that field is absent; and an entity a read
\* returns has, under the name of header i, what cell i of its row held (parsed for
\* lat and lng), and nothing when the row has no cell i or an empty one.
HeadersOf(op) == IF TabOf(op) = FARMACIAS_TAB THEN FARMACIAS_HEADERS ELSE MEDICOS_HEADERS
CellOf(v) == IF v = Undefined THEN Str("") ELSE v
FieldOf(h, row, i) ==
  IF i <= Len(row) /\ row[i] # ""
  THEN IF h \in NumberFields THEN parseFloat(row[i]) ELSE Str(row[i])
  ELSE IF h \in RequiredFields THEN Str("") ELSE Undefined
FormattedRow(row) == [i \in 1..Len(row) |-> FormattedValue(row[i])]
TabRows(req) == sheets[SheetIndex(req.spreadsheetId)].grid[req.tab]
C31_ConcurrentWritesBothPresent ==
  \A t, u \in WriteTasks :
    t # u =>
      /\ task[t].dataCalls = 1
      /\ task[u].dataCalls = 1
      /\ \E i \in 1..Len(TabRows(task[t].dataReq)) :
           TabRows(task[t].dataReq)[i] = FormattedRow(task[t].dataReq.row)
      /\ (task[t].dataReq.spreadsheetId = task[u].dataReq.spreadsheetId
            /\ task[t].dataReq.tab = task[u].dataReq.tab)
           => Len(TabRows(task[t].dataReq)) >= 3

\* C32: starting with no stored sheet id and no spreadsheet on the remote, whatever
\* the interleaving of the callers, create is served at most once, and any two
\* operations that have their handle have the same one.
CreatedSheets == {n \in SheetIds : sheets[n].state # "none"}
HandleOf(tk) == IF tk.op = "initializeSheet" THEN tk.result ELSE tk.sheetArg
HasHandle(tk) ==
  \/ tk.op = "initializeSheet" /\ tk.pc = "done" /\ tk.result # "rejected"
  \/ tk.op \in RecordOps /\ tk.dataReq # NoRequest
C32_ConcurrentCallsCreateOnce ==
  /\ Cardinality(CreatedSheets) <= 1
  /\ \A t, u \in Tasks :
       (HasHandle(task[t]) /\ HasHandle(task[u])) => HandleOf(task[t]) = HandleOf(task[u])

\* C33: a signIn() whose token request the provider has answered is settled: no
\* signIn() promise is pending once its request has its response, and no operation
\* still awaits such a call.
C33_AnsweredSignInSettles ==
  /\ \A k \in SignInIds : signIns[k] = "pending" => k \in requested
  /\ \A t \in Tasks : task[t].pc = "awaitSignIn" => task[t].call \in requested

\* C34: the spreadsheet whose id initializeSheet() returns has the header row as
\* the first row of both tabs.
HeaderRowIn(n, tab, headers) ==
  /\ tab \in DOMAIN sheets[n].grid
  /\ sheets[n].grid[tab] # << >>
  /\ sheets[n].grid[tab][1] = headers
C34_ReturnedHandleHasHeaders ==
  \A t \in Tasks :
    (task[t].op = "initializeSheet" /\ task[t].pc = "done" /\ task[t].result # "rejected") =>
      /\ HeaderRowIn(SheetIndex(task[t].result), FARMACIAS_TAB, FARMACIAS_HEADERS)
      /\ HeaderRowIn(SheetIndex(task[t].result), MEDICOS_TAB, MEDICOS_HEADERS)

\* C35: in the step in which an operation issues a remote call (files.list,
\* spreadsheets.get, create, the header batchUpdate, values.get, values.append), the
\* token attached to the gapi client is the stored token, and the stored session is
\* unexpired.
CallIssued(t) ==
  /\ task'[t].pc = "awaitRemote"
  /\ task'[t].calls # task[t].calls \/ task'[t].dataCalls # task[t].dataCalls
C35_CallCarriesCheckedToken ==
  [][\A t \in Tasks :
       CallIssued(t) =>
         /\ lsAccessToken' # NULL
         /\ gapiToken' = lsAccessToken'
         /\ isAuthenticated']_vars

\* C36: whenever getAccessToken() returns a token that is not null, that token is the
\* stored token and the stored session is unexpired at the moment of the return.
GetAccessTokenReturns(t) ==
  /\ task'[t].op = "getAccessToken"
  /\ task'[t].pc = "done"
  /\ task[t].pc # "done"
C36_ReturnedTokenIsUnexpired ==
  [][\A t \in Tasks :
       (GetAccessTokenReturns(t) /\ task'[t].result # NULL) =>
         /\ task'[t].result = lsAccessToken'
         /\ isAuthenticated']_vars

\* C37: in every reachable state the stored access token and the stored expiry are
\* both present or both absent.
C37_TokenAndExpiryTogether ==
  (lsAccessToken = NULL) <=> (lsExpiresAt = NoDigits)

\* a sign-in wrote both, and a later sign-out of that session removed both
C37_Witness ==
  \E t, u \in Tasks :
    /\ task[t].op = "signIn" /\ task[t].pc = "done" /\ task[t].result = "resolved"
    /\ task[t].entry.token = NULL /\ task[t].after.token # NULL /\ task[t].after.expiresAt >= 0
    /\ task[u].op = "signOut" /\ task[u].pc = "done" /\ task[u].result = "resolved"
    /\ task[u].entry.token # NULL
    /\ lsAccessToken = NULL /\ lsExpiresAt = NoDigits

\* C38: a signOut() that rejects leaves the stored token, the stored expiry, the
\* stored sheet id and the token attached to the gapi client as they were when it
\* was called.
C38_RejectedSignOutChangesNothing ==
  [][\A t \in Tasks :
       (signOut(t) /\ task'[t].result = "rejected") =>
         /\ lsAccessToken' = lsAccessToken
         /\ lsExpiresAt' = lsExpiresAt
         /\ lsSheetId' = lsSheetId
         /\ gapiToken' = gapiToken]_vars

\* revoke() threw with a session stored, a sheet id cached and a token attached
C38_Witness ==
  \E t \in Tasks :
    /\ task[t].op = "signOut" /\ task[t].pc = "done" /\ task[t].result = "rejected"
    /\ task[t].error = "revoke threw"
    /\ lsAccessToken # NULL /\ lsExpiresAt # NoDigits /\ lsSheetId # NULL /\ gapiToken # NULL

\* C39: when an add whose write succeeded and a run of loadData that was in flight
\* at that moment have both completed, the list of the state holds the added item
\* exactly once.
Occurrences(list, item) == Cardinality({i \in 1..Len(list) : list[i] = item})
C39_AddedItemSurvivesReload ==
  \A a \in Adds :
    ( /\ add[a].pc = "done" /\ add[a].result # ""
      /\ add[a].readBefore
      /\ ~Has(add[a].before, add[a].arg)
      /\ \A r \in Loads : load[r].pc = "done" /\ load[r].joined = "resolved" )
    => Occurrences(state[ListOf(add[a].op)], add[a].arg) = 1

\* C40: a run of loadData that finds isAuthenticated() false after initialization,
\* the stored session absent or merely expired, calls neither initializeSheet() nor a
\* read: it sets the 'Not authenticated' error state with both lists empty and does
\* not set status 'loading'. A run whose initialization failed sets the
\* initialization error state whether or not a session is stored.
PassesInit(r) ==
  /\ load[r].pc \in {"idle", "awaitInit"}
  /\ load'[r].pc \in {"done", "awaitSheet"}
C40_UnauthenticatedLoadStopsEarly ==
  [][\A r \in Loads :
       /\ (PassesInit(r) /\ ~isAuthenticated) =>
            /\ load'[r].pc = "done"
            /\ load'[r].farmacias = NoCall /\ load'[r].medicos = NoCall
            /\ load'[r].joined = "none"
            /\ state' \in {NotAuthenticatedState, InitFailedState}
       /\ (PassesInit(r) /\ load'[r].pc = "done") =>
            /\ state'.status = "error"
            /\ state'.farmacias = << >> /\ state'.medicos = << >>
            /\ isAuthenticated => state' = InitFailedState
       /\ (InitSettles(r, TRUE) /\ ~isAuthenticated) => state' = NotAuthenticatedState
       /\ InitSettles(r, FALSE) => state' = InitFailedState]_vars

\* the stored session is present and expired, and the run stopped at the check
C40_Witness ==
  \E r \in Loads :
    /\ load[r].pc = "done"
    /\ load[r].farmacias = NoCall
    /\ SessionPresent /\ ~NotExpired
    /\ state = NotAuthenticatedState

====
